---------------------------- MODULE Spec2Model ----------------------------
(***************************************************************************)
(* Navigation-planning stack of the walking aid: the occupancy/cost grid   *)
(* (grid_map.py), the A* search (astar.py), the D* search (dstar.py), the  *)
(* RRT* search (rrt_star.py) and the scene memory (scene_memory.py).       *)
(*                                                                         *)
(* Numbers.  Costs are Python floats in the source.  Here every cost is a  *)
(* fixed-point integer in thousandths (1.0 is 1000, sqrt(2) is 1414, the   *)
(* inflated cost 7.5 is 7500); float('inf') is the value INF.  Confidences *)
(* are integers in hundredths.  The stability score is kept in tenths.     *)
(***************************************************************************)
EXTENDS Integers, Sequences, FiniteSets, TLC

VARIABLES
    \* ---- LibraryGridMap (grid_map.py) ----
    grid_width, grid_height, resolution,
    grid,            \* cell -> CellType value
    cost_grid,       \* cell -> traversal cost (thousandths)
    updates,         \* number of update_from_detections calls so far
    g_last,          \* history: the last update_from_detections call
    \* ---- AStarPathfinder (astar.py) ----
    a_pc,            \* "idle" | "search" | "done"
    a_args,          \* arguments of the running find_path call
    open_set,        \* heapq list of node keys
    closed_set,
    node_map,        \* key -> AStarNode
    nodes_explored,
    a_result,        \* returned path, or None
    a_raw,           \* path before smoothing (ghost, for the properties)
    a_stats,         \* last_search_stats
    \* ---- DStarPathfinder (dstar.py) ----
    d_pc,            \* "idle" | "search" | "extract"
    d_start,         \* start argument of the running find_path call
    d_goal,          \* goal_x, goal_y: [set |-> FALSE] is None
    nodes,           \* key -> DStarNode
    open_list,       \* heapq list of node keys
    last_path,
    cost_changes,    \* sequence of <<x, y, old_cost, new_cost>>
    last_grid_state, \* [set |-> FALSE] is None
    replan_count,
    d_stats,         \* last_search_stats
    d_last,          \* the last call that returned and what it returned
    d_calls,         \* number of calls made so far
    d_timeouts,      \* number of searches that ran out of time so far
    d_ghost,         \* ghost: cost_grid at the snapshot, what the last diff should have found
    \* ---- RRTStarPathfinder (rrt_star.py) ----
    r_pc,            \* "idle" | "loop" | "done"
    r_args,          \* start and goal pixel and optimize_iterations of the last find_path call
    tree,            \* the nodes in insertion order; parent is an index, 0 is None
    goal_found,
    best_goal_node,  \* index into tree, 0 is None
    best_cost,
    iterations,
    r_result,        \* what find_path returned
    r_stats,         \* last_search_stats
    r_first,         \* ghost: the first goal-region node, its cost when inserted, the iteration
    \* ---- SceneMemorySystem (scene_memory.py) ----
    now,                    \* timestamp of the last frame, in seconds
    frames,                 \* number of update_scene_memory calls so far
    tracked_objects,        \* dict in insertion order: sequence of objects
    object_trajectories,    \* dict in insertion order: <<id, timestamps>>
    disappeared_objects,    \* dict in insertion order: sequence of objects
    scene_stability_score,  \* in tenths
    previous_scene,         \* _previous_scene: [set |-> hasattr, classes]
    environmental_memory,   \* env type -> [visit_count, duration_spent]
    last_env,               \* _last_env_timestamp and _current_environment
    max_tracking_objects,   \* the cap given to the constructor
    s_last,                 \* history: the last update_scene_memory call
    \* ---- LibraryMapBuilder (library_map_builder.py) ----
    recent_frames,          \* deque(maxlen=memory_size) of the frames' detections
    persistent_objects,     \* dict in insertion order: sequence of objects
    object_frequency,       \* class name -> number of confident sightings
    spatial_relationships,  \* the relationship log, oldest first
    rel_total,              \* history: relationship records created so far
    m_last,                 \* history: the last update_map call
    \* ---- NavigationPlanner (navigation_planner.py) ----
    n_pc,                   \* "idle" | "plan" | "find_path" | "wait"
    n_request,              \* the request of the running plan_navigation call
    n_goal,                 \* goal_pos of the running call
    n_algorithm,            \* the algorithm chosen for the running call
    current_goal,
    active_path,
    last_planning_result,
    known_locations,        \* dict in insertion order: sequence of locations
    n_last,                 \* history: the last plan_navigation call and its result
    \* ---- a caller of pixel_to_grid and grid_to_pixel (grid_map.py) ----
    cv_pc,                  \* "idle" | "cell" | "centre" | "again"
    cv_image,               \* image width and height given to the constructor
    cv_pixel,               \* the pixel coordinate converted, in thousandths
    cv_cell,                \* pixel_to_grid of it
    cv_centre,              \* grid_to_pixel of that cell, in thousandths
    cv_again                \* pixel_to_grid of that centre

gridVars  == <<grid_width, grid_height, resolution, grid, cost_grid, updates, g_last>>
astarVars == <<a_pc, a_args, open_set, closed_set, node_map, nodes_explored,
               a_result, a_raw, a_stats>>
sceneVars == <<now, frames, tracked_objects, object_trajectories, disappeared_objects,
               scene_stability_score, previous_scene, environmental_memory, last_env,
               max_tracking_objects, s_last>>
dstarVars == <<d_pc, d_start, d_goal, nodes, open_list, last_path, cost_changes,
               last_grid_state, replan_count, d_stats, d_last, d_calls, d_timeouts,
               d_ghost>>
rrtVars == <<r_pc, r_args, tree, goal_found, best_goal_node, best_cost, iterations,
             r_result, r_stats, r_first>>
mapVars == <<recent_frames, persistent_objects, object_frequency, spatial_relationships,
             rel_total, m_last>>
navVars == <<n_pc, n_request, n_goal, n_algorithm, current_goal, active_path,
             last_planning_result, known_locations, n_last>>
convVars == <<cv_pc, cv_image, cv_pixel, cv_cell, cv_centre, cv_again>>
vars == <<gridVars, astarVars, dstarVars, rrtVars, sceneVars, mapVars, navVars, convVars>>

-----------------------------------------------------------------------------
(* Bounds of the model *)
MaxGX == 4          \* grid cells per row in the small scenarios
MaxGY == 3          \* grid rows in the small scenarios
MaxUpdates == 1     \* update_from_detections calls per behaviour
MaxDets == 2        \* detections per frame

(* Fixed-point scale and program constants *)
SCALE == 1000
INF == 2000000000
None == "None"
SQRT2 == 1414                     \* math.sqrt(2) in thousandths
FREE == 0
OBSTACLE == 1
DefaultResolution == 10
obstacle_inflation_radius == 2
safety_margin == 1500             \* 1.5
inflated_cost == (5 * safety_margin)

Min(a, b) == IF a <= b THEN a ELSE b
Max(a, b) == IF a >= b THEN a ELSE b
Abs(a) == IF a < 0 THEN -a ELSE a
SeqToSet(q) == {q[i] : i \in 1 .. Len(q)}

\* int(): Python's conversion of a quotient to int truncates towards zero
TruncDiv(a, b) == IF a >= 0 THEN a \div b ELSE -((-a) \div b)

RECURSIVE ISqrtBS(_, _, _)
ISqrtBS(n, lo, hi) ==
    IF lo >= hi THEN lo
    ELSE LET mid == (lo + hi + 1) \div 2
         IN IF mid * mid <= n THEN ISqrtBS(n, mid, hi) ELSE ISqrtBS(n, lo, mid - 1)

\* math.sqrt of a non-negative integer below 2^31, rounded down
ISqrt(n) == ISqrtBS(n, 0, 46340)

-----------------------------------------------------------------------------
(* LibraryGridMap *)

Cells == (0 .. grid_width - 1) \X (0 .. grid_height - 1)

pixel_to_grid(px, py) ==
    << Max(0, Min(grid_width - 1, TruncDiv(px, resolution))),
       Max(0, Min(grid_height - 1, TruncDiv(py, resolution))) >>

\* cell centre, in half pixels so that (g + 0.5) * resolution stays an integer
grid_to_pixel2(gx, gy) == << (2 * gx + 1) * resolution, (2 * gy + 1) * resolution >>

is_obstacle_class(class_name) ==
    class_name \in {"office-chair", "table", "books", "whiteboard"}

base_cost(class_name) ==
    CASE class_name = "office-chair" -> 10
      [] class_name = "table" -> 15
      [] class_name = "books" -> 8
      [] class_name = "whiteboard" -> 20
      [] class_name = "monitor" -> 3
      [] class_name = "tv" -> 4
      [] OTHER -> 5

\* base_cost * (0.5 + confidence * 1.5), confidence in hundredths
get_obstacle_cost(class_name, confidence) ==
    base_cost(class_name) * (500 + 15 * confidence)

\* the cells a detection's bounding box covers
DetCells(det) ==
    LET c1 == pixel_to_grid(det.x1, det.y1)
        c2 == pixel_to_grid(det.x2, det.y2)
    IN  { c \in Cells : /\ Min(c1[1], c2[1]) <= c[1] /\ c[1] <= Max(c1[1], c2[1])
                        /\ Min(c1[2], c2[2]) <= c[2] /\ c[2] <= Max(c1[2], c2[2]) }

\* _add_detection_to_grid on the pair <<grid, cost_grid>>
add_detection_to_grid(gc, det) ==
    LET cells == DetCells(det)
        oc == get_obstacle_cost(det.class_name, det.confidence)
    IN  IF is_obstacle_class(det.class_name)
        THEN << [c \in Cells |-> IF c \in cells THEN OBSTACLE ELSE gc[1][c]],
                [c \in Cells |-> IF c \in cells THEN oc ELSE gc[2][c]] >>
        ELSE << gc[1],
                [c \in Cells |-> IF c \in cells THEN Max(gc[2][c], oc \div 2) ELSE gc[2][c]] >>

RECURSIVE add_detections(_, _)
add_detections(gc, dets) ==
    IF dets = << >> THEN gc
    ELSE add_detections(add_detection_to_grid(gc, Head(dets)), Tail(dets))

\* cv2.getStructuringElement(MORPH_ELLIPSE, (5, 5)) as offsets from the centre
EllipseKernel ==
    { d \in (-2 .. 2) \X (-2 .. 2) : Abs(d[2]) <= 1 \/ d[1] = 0 }

\* a mutant of inflate_obstacles: the inflated cells become Obstacle
inflate_obstacles_blocking(gc) ==
    << [c \in Cells |->
           IF \E d \in EllipseKernel :
                 /\ <<c[1] + d[1], c[2] + d[2]>> \in Cells
                 /\ gc[1][<<c[1] + d[1], c[2] + d[2]>>] = OBSTACLE
           THEN OBSTACLE ELSE gc[1][c]],
       gc[2] >>

\* _inflate_obstacles on the pair <<grid, cost_grid>>
inflate_obstacles(gc) ==
    LET inflated(c) == \E d \in EllipseKernel :
                           /\ <<c[1] + d[1], c[2] + d[2]>> \in Cells
                           /\ gc[1][<<c[1] + d[1], c[2] + d[2]>>] = OBSTACLE
    IN  IF obstacle_inflation_radius <= 0 THEN gc
        ELSE << gc[1],
                [c \in Cells |-> IF gc[1][c] = FREE /\ inflated(c)
                                 THEN Max(gc[2][c], inflated_cost)
                                 ELSE gc[2][c]] >>

\* update_from_detections clearing the grid whatever clear_previous is
update_from_detections_cleared(gc, dets, clear_previous) ==
    inflate_obstacles(add_detections(<< [c \in Cells |-> FREE], [c \in Cells |-> SCALE] >>,
                                     dets))

update_from_detections(gc, dets, clear_previous) ==
    LET start == IF clear_previous
                 THEN << [c \in Cells |-> FREE], [c \in Cells |-> SCALE] >>
                 ELSE gc
    IN  inflate_obstacles(add_detections(start, dets))

\* the cells that obstacle-class detections have covered since the grid was
\* last cleared
covered_cells(dets, clear_previous) ==
    (IF clear_previous THEN {} ELSE g_last.covered)
    \cup UNION { DetCells(dets[i]) : i \in { k \in 1 .. Len(dets) :
                                                is_obstacle_class(dets[k].class_name) } }

grid_update(dets, clear_previous) ==
    /\ LET gc == update_from_detections(<<grid, cost_grid>>, dets, clear_previous)
       IN  /\ grid' = gc[1]
           /\ cost_grid' = gc[2]
    /\ updates' = updates + 1
    /\ g_last' = [detections |-> dets, clear_previous |-> clear_previous,
                  covered |-> covered_cells(dets, clear_previous)]
    /\ UNCHANGED <<grid_width, grid_height, resolution>>

\* a mutant of is_valid_position: Obstacle cells pass
is_valid_position_bounds_only(g, x, y) ==
    0 <= x /\ x < grid_width /\ 0 <= y /\ y < grid_height

is_valid_position(g, x, y) ==
    /\ 0 <= x /\ x < grid_width /\ 0 <= y /\ y < grid_height
    /\ g[<<x, y>>] # OBSTACLE

get_cost(g, cg, x, y) == IF is_valid_position(g, x, y) THEN cg[<<x, y>>] ELSE INF

\* the order in which get_neighbors tries the eight directions
Directions == << <<0, 1>>, <<0, -1>>, <<1, 0>>, <<-1, 0>>,
                 <<1, 1>>, <<1, -1>>, <<-1, 1>>, <<-1, -1>> >>

get_neighbors(g, x, y) ==
    LET all == [i \in 1 .. 8 |-> <<x + Directions[i][1], y + Directions[i][2]>>]
        ok(c) == is_valid_position(g, c[1], c[2])
    IN  SelectSeq(all, ok)

-----------------------------------------------------------------------------
(* heapq: a binary heap kept in a list.  Items are node keys; lt compares  *)
(* the nodes as they are now (the list holds references to the nodes).     *)
(* Positions are 0-based as in heapq; the sequence is 1-based.             *)

KeyLess(key, a, b) ==
    IF key[a][1] # key[b][1] THEN key[a][1] < key[b][1] ELSE key[a][2] < key[b][2]

RECURSIVE siftdown(_, _, _, _, _)
siftdown(heap, key, newitem, startpos, pos) ==
    IF pos > startpos
    THEN LET parentpos == (pos - 1) \div 2
             parent == heap[parentpos + 1]
         IN  IF KeyLess(key, newitem, parent)
             THEN siftdown([heap EXCEPT ![pos + 1] = parent], key, newitem, startpos, parentpos)
             ELSE [heap EXCEPT ![pos + 1] = newitem]
    ELSE [heap EXCEPT ![pos + 1] = newitem]

RECURSIVE siftup(_, _, _, _)
siftup(heap, key, newitem, pos) ==
    LET endpos == Len(heap)
        childpos == 2 * pos + 1
    IN  IF childpos < endpos
        THEN LET rightpos == childpos + 1
                 cp == IF rightpos < endpos
                          /\ ~KeyLess(key, heap[childpos + 1], heap[rightpos + 1])
                       THEN rightpos ELSE childpos
             IN  siftup([heap EXCEPT ![pos + 1] = heap[cp + 1]], key, newitem, cp)
        ELSE siftdown([heap EXCEPT ![pos + 1] = newitem], key, newitem, 0, pos)

heappush(heap, key, item) ==
    siftdown(Append(heap, item), key, item, 0, Len(heap))

\* <<returned item, heap afterwards>>
heappop(heap, key) ==
    LET lastelt == heap[Len(heap)]
        rest == SubSeq(heap, 1, Len(heap) - 1)
    IN  IF rest # << >>
        THEN << rest[1], siftup(rest, key, lastelt, 0) >>
        ELSE << lastelt, rest >>

InSeq(s, e) == \E i \in 1 .. Len(s) : s[i] = e

-----------------------------------------------------------------------------
(* AStarPathfinder *)

NoParent == << >>
NoPath == [found |-> FALSE, path |-> << >>]
NoStats == [present |-> FALSE, nodes_explored |-> 0, path_length |-> 0,
            path_cost |-> 0, success |-> FALSE, timeout |-> FALSE]
NoArgs == [start |-> <<0, 0>>, goal |-> <<0, 0>>, smooth |-> FALSE]

heuristic_weight == 1

\* _calculate_heuristic: Euclidean distance times the heuristic weight
calculate_heuristic(x1, y1, x2, y2) ==
    LET dx == Abs(x1 - x2)
        dy == Abs(y1 - y2)
    IN  ISqrt((dx * dx + dy * dy) * SCALE * SCALE) * heuristic_weight

\* mutant: the cost of the cell entered is left out of the movement cost
calculate_movement_cost_unweighted(g, cg, from, to) ==
    LET dx == Abs(to[1] - from[1])
        dy == Abs(to[2] - from[2])
    IN  IF dx = 1 /\ dy = 1 THEN SQRT2 ELSE SCALE

\* mutant: a diagonal move is charged like an orthogonal one
calculate_movement_cost_flat(g, cg, from, to) ==
    (SCALE * get_cost(g, cg, to[1], to[2])) \div SCALE

\* _calculate_movement_cost: (1 or sqrt 2) times the cost of the cell entered
calculate_movement_cost(g, cg, from, to) ==
    LET dx == Abs(to[1] - from[1])
        dy == Abs(to[2] - from[2])
        base == IF dx = 1 /\ dy = 1 THEN SQRT2 ELSE SCALE
    IN  (base * get_cost(g, cg, to[1], to[2])) \div SCALE

\* AStarNode.__lt__ : f_cost first, h_cost breaks ties
AStarKey(nm) == [c \in DOMAIN nm |-> <<nm[c].f, nm[c].h>>]

AStarNode(g, h, parent) == [g |-> g, h |-> h, f |-> Min(g + h, INF), parent |-> parent]

\* lines 124-156: one neighbour of the node being expanded
AStarRelax(st, cur, nb, goal) ==
    IF nb \in st.closed THEN st
    ELSE LET tentative == st.nm[cur].g + calculate_movement_cost(grid, cost_grid, cur, nb)
             nm1 == IF nb \in DOMAIN st.nm THEN st.nm
                    ELSE [c \in DOMAIN st.nm \cup {nb} |->
                            IF c = nb
                            THEN AStarNode(INF, calculate_heuristic(nb[1], nb[2], goal[1], goal[2]), NoParent)
                            ELSE st.nm[c]]
         IN  IF tentative < nm1[nb].g
             THEN LET nm2 == [nm1 EXCEPT ![nb] = AStarNode(tentative, nm1[nb].h, cur)]
                  IN  [st EXCEPT !.nm = nm2,
                                 !.os = IF InSeq(st.os, nb) THEN st.os
                                        ELSE heappush(st.os, AStarKey(nm2), nb)]
             ELSE [st EXCEPT !.nm = nm1]

RECURSIVE AStarExpand(_, _, _, _)
AStarExpand(st, cur, nbs, goal) ==
    IF nbs = << >> THEN st
    ELSE AStarExpand(AStarRelax(st, cur, Head(nbs), goal), cur, Tail(nbs), goal)

\* mutant: the walk stops at the node without parent and leaves it out
RECURSIVE reconstruct_path_no_start(_, _, _)
reconstruct_path_no_start(nm, cur, acc) ==
    IF cur = NoParent \/ nm[cur].parent = NoParent THEN acc
    ELSE reconstruct_path_no_start(nm, nm[cur].parent, <<cur>> \o acc)

\* _reconstruct_path: follow the parent links from the goal node, then reverse
RECURSIVE reconstruct_path(_, _, _)
reconstruct_path(nm, cur, acc) ==
    IF cur = NoParent \/ Len(acc) > Cardinality(DOMAIN nm) THEN acc
    ELSE reconstruct_path(nm, nm[cur].parent, <<cur>> \o acc)

\* _is_line_of_sight: the stepping loop of lines 258-273; w carries the
\* constants of the walk (end point, dx, dy, x_inc, y_inc)
RECURSIVE line_walk(_, _, _, _, _)
line_walk(g, x, y, error, w) ==
    IF ~is_valid_position(g, x, y) THEN FALSE
    ELSE IF x = w.x1 /\ y = w.y1 THEN TRUE
    ELSE IF error > 0
         THEN line_walk(g, x + w.x_inc, y, error - w.dy, w)
         ELSE line_walk(g, x, y + w.y_inc, error + w.dx, w)

is_line_of_sight(g, start, end) ==
    LET dx == Abs(end[1] - start[1])
        dy == Abs(end[2] - start[2])
    IN  line_walk(g, start[1], start[2], dx - dy,
                  [x1 |-> end[1], y1 |-> end[2], dx |-> dx, dy |-> dy,
                   x_inc |-> IF end[1] > start[1] THEN 1 ELSE -1,
                   y_inc |-> IF end[2] > start[2] THEN 1 ELSE -1])

\* mutant: the last waypoint is taken without looking along the line
furthest_reachable_unchecked(g, path, i, j, best) == Len(path)

\* lines 222-226: the furthest j >= i + 2 reachable from i, each j in turn,
\* stopping at the first one without line of sight
RECURSIVE furthest_reachable(_, _, _, _, _)
furthest_reachable(g, path, i, j, best) ==
    IF j > Len(path) THEN best
    ELSE IF is_line_of_sight(g, path[i], path[j])
         THEN furthest_reachable(g, path, i, j + 1, j)
         ELSE best

\* the while loop of _smooth_path (indices are 1-based here)
RECURSIVE smooth_loop(_, _, _, _)
smooth_loop(g, path, i, smoothed) ==
    IF i < Len(path)
    THEN LET fr == furthest_reachable(g, path, i, i + 2, i + 1)
         IN  smooth_loop(g, path, fr, Append(smoothed, path[fr]))
    ELSE smoothed

smooth_path(g, path) ==
    IF Len(path) < 3 THEN path
    ELSE LET sm == smooth_loop(g, path, 1, <<path[1]>>)
         IN  IF sm[Len(sm)] # path[Len(path)] THEN Append(sm, path[Len(path)]) ELSE sm

-----------------------------------------------------------------------------
(* A* find_path, one action per loop iteration *)

\* lines 65-92: validation and initialisation
astar_find_path(sx, sy, gx, gy, smooth) ==
    /\ a_args' = [start |-> <<sx, sy>>, goal |-> <<gx, gy>>, smooth |-> smooth]
    /\ IF ~is_valid_position(grid, sx, sy) \/ ~is_valid_position(grid, gx, gy)
       THEN /\ a_pc' = "done"
            /\ a_result' = NoPath
            /\ UNCHANGED <<open_set, closed_set, node_map, nodes_explored, a_raw, a_stats>>
       ELSE /\ a_pc' = "search"
            /\ node_map' = (<<sx, sy>> :> AStarNode(0, calculate_heuristic(sx, sy, gx, gy), NoParent))
            /\ open_set' = << <<sx, sy>> >>
            /\ closed_set' = {}
            /\ nodes_explored' = 0
            /\ UNCHANGED <<a_result, a_raw, a_stats>>

AStarFindPath(sx, sy, gx, gy, smooth) ==
    /\ a_pc = "idle"
    /\ astar_find_path(sx, sy, gx, gy, smooth)
    /\ UNCHANGED <<gridVars, dstarVars, rrtVars, sceneVars, mapVars, navVars, convVars>>

\* lines 95-156: one iteration of the main loop
AStarStep ==
    /\ a_pc = "search"
    /\ open_set # << >>
    /\ LET popped == heappop(open_set, AStarKey(node_map))
           cur == popped[1]
       IN  /\ nodes_explored' = nodes_explored + 1
           /\ IF cur = a_args.goal
              THEN LET raw == reconstruct_path(node_map, cur, << >>)
                       path == IF a_args.smooth THEN smooth_path(grid, raw) ELSE raw
                   IN  /\ a_raw' = raw
                       /\ a_result' = [found |-> TRUE, path |-> path]
                       /\ a_stats' = [present |-> TRUE, nodes_explored |-> nodes_explored + 1,
                                      path_length |-> Len(path), path_cost |-> node_map[cur].g,
                                      success |-> TRUE, timeout |-> FALSE]
                       /\ a_pc' = "done"
                       /\ open_set' = popped[2]
                       /\ UNCHANGED <<closed_set, node_map>>
              ELSE LET st == AStarExpand([nm |-> node_map, os |-> popped[2],
                                          closed |-> closed_set \cup {cur}],
                                         cur, get_neighbors(grid, cur[1], cur[2]), a_args.goal)
                   IN  /\ closed_set' = st.closed
                       /\ node_map' = st.nm
                       /\ open_set' = st.os
                       /\ UNCHANGED <<a_pc, a_result, a_raw, a_stats>>
    /\ UNCHANGED <<a_args, gridVars, dstarVars, rrtVars, sceneVars, mapVars, navVars, convVars>>

\* lines 158-168 when the open set ran empty
AStarExhausted ==
    /\ a_pc = "search"
    /\ open_set = << >>
    /\ a_stats' = [present |-> TRUE, nodes_explored |-> nodes_explored, path_length |-> 0,
                   path_cost |-> INF, success |-> FALSE, timeout |-> FALSE]
    /\ a_result' = NoPath
    /\ a_pc' = "done"
    /\ UNCHANGED <<a_args, open_set, closed_set, node_map, nodes_explored, a_raw, gridVars,
                   dstarVars, rrtVars, sceneVars, mapVars, navVars, convVars>>

\* lines 158-168 when the wall clock passed the timeout before an iteration
AStarTimeout ==
    /\ a_pc = "search"
    /\ open_set # << >>
    /\ a_stats' = [present |-> TRUE, nodes_explored |-> nodes_explored, path_length |-> 0,
                   path_cost |-> INF, success |-> FALSE, timeout |-> TRUE]
    /\ a_result' = NoPath
    /\ a_pc' = "done"
    /\ UNCHANGED <<a_args, open_set, closed_set, node_map, nodes_explored, a_raw, gridVars,
                   dstarVars, rrtVars, sceneVars, mapVars, navVars, convVars>>

-----------------------------------------------------------------------------
(* DStarPathfinder *)

DStarNew == [tag |-> "NEW", h |-> 0, k |-> 0, parent |-> NoParent, cost |-> INF]

\* float addition with float('inf')
Plus(a, b) == IF a >= INF \/ b >= INF THEN INF ELSE a + b

\* _get_or_create_node on the node table
get_or_create_node(ns, key) ==
    IF key \in DOMAIN ns THEN ns ELSE (key :> DStarNew) @@ ns

RECURSIVE get_or_create_all(_, _)
get_or_create_all(ns, keys) ==
    IF keys = << >> THEN ns
    ELSE get_or_create_all(get_or_create_node(ns, Head(keys)), Tail(keys))

\* _get_arc_cost(from_node, to_node)
get_arc_cost(g, cg, from, to) ==
    IF ~is_valid_position(g, to[1], to[2]) THEN INF
    ELSE ((IF Abs(to[1] - from[1]) = 1 /\ Abs(to[2] - from[2]) = 1 THEN SQRT2 ELSE SCALE)
          * get_cost(g, cg, to[1], to[2])) \div SCALE

\* DStarNode.__lt__ compares k only
DStarKey(ns) == [c \in DOMAIN ns |-> <<ns[c].k, 0>>]

\* _insert_node on st = [ns, ol]
insert_node(st, key, h_new) ==
    LET n == st.ns[key]
        k == CASE n.tag = "NEW" -> h_new
               [] n.tag = "OPEN" -> Min(n.k, h_new)
               [] n.tag = "CLOSED" -> Min(n.h, h_new)
        ns1 == [st.ns EXCEPT ![key] = [@ EXCEPT !.k = k, !.h = h_new, !.tag = "OPEN"]]
    IN  [ns |-> ns1, ol |-> heappush(st.ol, DStarKey(ns1), key)]

\* lines 181-184: one neighbour in the branch k_old < h
RaiseNeighbor(st, cur, nb, k_old) ==
    LET arc == get_arc_cost(grid, cost_grid, nb, cur)
    IN  IF st.ns[nb].h <= k_old /\ st.ns[cur].h > Plus(st.ns[nb].h, arc)
        THEN [st EXCEPT !.ns[cur] = [@ EXCEPT !.parent = nb, !.h = Plus(st.ns[nb].h, arc)]]
        ELSE st

\* lines 190-198: one neighbour in the branch k_old = h
LowerNeighbor(st, cur, nb, k_old) ==
    LET arc == get_arc_cost(grid, cost_grid, cur, nb)
        n == st.ns[nb]
        via == Plus(st.ns[cur].h, arc)
    IN  IF \/ n.tag = "NEW"
           \/ (n.parent = cur /\ n.h # via)
           \/ (n.parent # cur /\ n.h > via)
        THEN insert_node([st EXCEPT !.ns[nb].parent = cur], nb, via)
        ELSE st

\* lines 204-218: one neighbour in the branch k_old > h
MixedNeighbor(st, cur, nb, k_old) ==
    LET arc == get_arc_cost(grid, cost_grid, cur, nb)
        n == st.ns[nb]
        c == st.ns[cur]
        via == Plus(c.h, arc)
    IN  IF n.tag = "NEW" \/ (n.parent = cur /\ n.h # via)
        THEN insert_node([st EXCEPT !.ns[nb].parent = cur], nb, via)
        ELSE IF n.parent # cur /\ n.h > via
             THEN insert_node(st, cur, c.h)
             ELSE IF /\ n.parent # cur
                     /\ c.h > Plus(n.h, get_arc_cost(grid, cost_grid, nb, cur))
                     /\ n.tag = "CLOSED"
                     /\ n.h > k_old
                  THEN insert_node(st, nb, n.h)
                  ELSE st

RECURSIVE process_neighbors(_, _, _, _, _)
process_neighbors(st, cur, nbs, k_old, branch) ==
    IF nbs = << >> THEN st
    ELSE LET st1 == CASE branch = "raise" -> RaiseNeighbor(st, cur, Head(nbs), k_old)
                      [] branch = "lower" -> LowerNeighbor(st, cur, Head(nbs), k_old)
                      [] branch = "mixed" -> MixedNeighbor(st, cur, Head(nbs), k_old)
         IN  process_neighbors(st1, cur, Tail(nbs), k_old, branch)

\* mutant: the node taken from the open list is left in it
process_state_keep(st) ==
    LET cur == st.ol[1]
        ns1 == [st.ns EXCEPT ![cur].tag = "CLOSED"]
        k_old == ns1[cur].k
        nbs == get_neighbors(grid, cur[1], cur[2])
        ns2 == get_or_create_all(ns1, nbs)
        branch == IF k_old < ns1[cur].h THEN "raise"
                  ELSE IF k_old = ns1[cur].h THEN "lower" ELSE "mixed"
    IN  process_neighbors([ns |-> ns2, ol |-> st.ol], cur, nbs, k_old, branch)

\* _process_state on a non-empty open list: st = [ns, ol]
process_state(st) ==
    LET popped == heappop(st.ol, DStarKey(st.ns))
        cur == popped[1]
        ns1 == [st.ns EXCEPT ![cur].tag = "CLOSED"]
        k_old == ns1[cur].k
        nbs == get_neighbors(grid, cur[1], cur[2])
        ns2 == get_or_create_all(ns1, nbs)
        branch == IF k_old < ns1[cur].h THEN "raise"
                  ELSE IF k_old = ns1[cur].h THEN "lower" ELSE "mixed"
    IN  process_neighbors([ns |-> ns2, ol |-> popped[2]], cur, nbs, k_old, branch)

\* _extract_path: parent links from the start to the goal, a revisit stops it
RECURSIVE extract_path(_, _, _, _)
extract_path(ns, cur, goal, path) ==
    IF cur = NoParent \/ InSeq(path, cur) THEN path
    ELSE IF cur = goal THEN Append(path, cur)
    ELSE extract_path(ns, ns[cur].parent, goal, Append(path, cur))

\* the cells in the order of np.where: row by row
RowMajor == [i \in 1 .. grid_width * grid_height |->
                <<(i - 1) % grid_width, (i - 1) \div grid_width>>]

\* _detect_environment_changes: the changes it records (lines 306-316)
detected_changes(g, cg, last) ==
    LET changed == SelectSeq(RowMajor, LAMBDA c : g[c] # last[c])
        entry(c) == << c[1], c[2],
                       IF last[c] # OBSTACLE THEN get_cost(g, cg, c[1], c[2]) ELSE INF,
                       get_cost(g, cg, c[1], c[2]) >>
        all == [i \in 1 .. Len(changed) |-> entry(changed[i])]
    IN  SelectSeq(all, LAMBDA e : e[3] # e[4])

\* _detect_environment_changes: its return value
changes_detected(g, last) == last.set /\ g # last.grid

\* lines 327-342: one recorded change; st = [ns, ol]
HandleChange(st, ch) ==
    LET key == <<ch[1], ch[2]>>
        st0 == [st EXCEPT !.ns = get_or_create_node(st.ns, key)]
    IN  IF ch[4] > ch[3]
        THEN LET nbs == get_neighbors(grid, key[1], key[2])
                 st1 == [st0 EXCEPT !.ns = get_or_create_all(st0.ns, nbs)]
                 reinsert[i \in 0 .. Len(nbs)] ==
                     IF i = 0 THEN st1
                     ELSE IF reinsert[i - 1].ns[nbs[i]].parent = key
                          THEN insert_node(reinsert[i - 1], nbs[i], reinsert[i - 1].ns[nbs[i]].h)
                          ELSE reinsert[i - 1]
             IN  reinsert[Len(nbs)]
        ELSE IF ch[4] < ch[3] /\ st0.ns[key].tag = "CLOSED"
             THEN insert_node(st0, key, st0.ns[key].h)
             ELSE st0

RECURSIVE handle_environment_changes(_, _)
handle_environment_changes(st, changes) ==
    IF changes = << >> THEN st
    ELSE handle_environment_changes(HandleChange(st, Head(changes)), Tail(changes))

\* get_next_waypoint: the cell after the current one in last_path, or None
get_next_waypoint(path, cur) ==
    IF path # << >> /\ InSeq(path, cur)
    THEN LET i == CHOOSE j \in 1 .. Len(path) :
                     path[j] = cur /\ \A m \in 1 .. j - 1 : path[m] # cur
         IN  IF i < Len(path) THEN [found |-> TRUE, cell |-> path[i + 1]]
             ELSE [found |-> FALSE, cell |-> <<0, 0>>]
    ELSE [found |-> FALSE, cell |-> <<0, 0>>]

-----------------------------------------------------------------------------
(* D* calls.  set_goal and replan_if_needed's early return are one action    *)
(* each; find_path is its entry, one action per iteration of its loop, and   *)
(* its exit.  d_ghost is history kept for the properties: the iterations    *)
(* the running find_path call has made (0 outside a call), the traversal    *)
(* costs at the moment last_grid_state was stored, what the last comparison  *)
(* with that snapshot should have found, and the last successful search.     *)

MaxDCalls == 3      \* set_goal / find_path / replan_if_needed calls per behaviour
MaxDTimeouts == 1   \* searches per behaviour that run out of time

\* get_cost of every cell
TravMap(g, cg) == [c \in DOMAIN g |-> get_cost(g, cg, c[1], c[2])]

NoDiff == [ran |-> FALSE, modified |-> FALSE, expected |-> {}]
NoPrev == [set |-> FALSE, start |-> <<0, 0>>, cost |-> 0, path |-> << >>, trav |-> << >>]
NoCmp == [set |-> FALSE, raised |-> FALSE, lowered |-> FALSE, old |-> 0, new |-> 0]
\* a call that returned at once with False / None
DCall(op, arg) ==
    [op |-> op, arg |-> arg, running |-> FALSE, entered |-> FALSE, reachable |-> FALSE,
     ok |-> FALSE, path |-> << >>, replanned |-> FALSE, timeout |-> FALSE]

\* get_neighbors as a set
NeighborSet(g, c) ==
    LET q == get_neighbors(g, c[1], c[2])
    IN  {q[i] : i \in 1 .. Len(q)}

\* the cells that valid steps reach from the cells of seen; frontier is its newest part
RECURSIVE ReachableFrom(_, _, _)
ReachableFrom(g, seen, frontier) ==
    LET more == UNION {NeighborSet(g, c) : c \in frontier} \ seen
    IN  IF more = {} THEN seen ELSE ReachableFrom(g, seen \cup more, more)

\* a path of valid cells leads from s to t
Reachable(g, s, t) ==
    /\ is_valid_position(g, s[1], s[2])
    /\ is_valid_position(g, t[1], t[2])
    /\ t \in ReachableFrom(g, {s}, {s})

\* lines 135 and 142: whether the search succeeded and the cost it reports
search_result_by_h(ns, start) ==
    [success |-> ns[start].h < INF, path_cost |-> ns[start].h]

search_result(ns, start) ==
    [success |-> ns[start].cost < INF, path_cost |-> ns[start].cost]

\* the cells whose traversal cost differs from the one at the snapshot
TrueDiff ==
    IF last_grid_state.set
    THEN LET trav == TravMap(grid, cost_grid)
             diff == {c \in DOMAIN grid : d_ghost.snap[c] # trav[c]}
         IN  [ran |-> TRUE, modified |-> diff # {},
              expected |-> {<<c[1], c[2], d_ghost.snap[c], trav[c]>> : c \in diff}]
    ELSE NoDiff

InitDStar ==
    /\ d_pc = "idle"
    /\ d_start = <<0, 0>>
    /\ d_goal = [set |-> FALSE, x |-> 0, y |-> 0]
    /\ nodes = << >>
    /\ open_list = << >>
    /\ last_path = << >>
    /\ cost_changes = << >>
    /\ last_grid_state = [set |-> FALSE, grid |-> << >>]
    /\ replan_count = 0
    /\ d_stats = [present |-> FALSE, path_length |-> 0, path_cost |-> 0,
                  replan_count |-> 0, success |-> FALSE]
    /\ d_last = DCall("none", <<0, 0>>)
    /\ d_calls = 0
    /\ d_timeouts = 0
    /\ d_ghost = [snap |-> << >>, diff |-> NoDiff, prev |-> NoPrev, cmp |-> NoCmp,
                  iterations |-> 0]

\* set_goal(goal_x, goal_y)
set_goal(gx, gy) ==
    /\ d_calls' = d_calls + 1
    /\ IF ~is_valid_position(grid, gx, gy)
       THEN /\ d_last' = DCall("set_goal", <<gx, gy>>)
            /\ d_ghost' = [d_ghost EXCEPT !.diff = NoDiff, !.cmp = NoCmp]
            /\ UNCHANGED <<d_goal, nodes, open_list, cost_changes, replan_count,
                           last_grid_state>>
       ELSE /\ d_goal' = [set |-> TRUE, x |-> gx, y |-> gy]
            /\ nodes' = (<<gx, gy>> :> [DStarNew EXCEPT !.cost = 0, !.h = 0, !.k = 0,
                                                      !.tag = "OPEN"])
            /\ open_list' = << <<gx, gy>> >>
            /\ cost_changes' = << >>
            /\ replan_count' = 0
            /\ last_grid_state' = [set |-> TRUE, grid |-> grid]
            /\ d_last' = [DCall("set_goal", <<gx, gy>>) EXCEPT !.ok = TRUE]
            /\ d_ghost' = [snap |-> TravMap(grid, cost_grid), diff |-> NoDiff,
                           prev |-> NoPrev, cmp |-> NoCmp, iterations |-> 0]
    /\ UNCHANGED <<d_pc, d_start, last_path, d_stats, d_timeouts>>

DStarSetGoal(gx, gy) ==
    /\ d_pc = "idle"
    /\ d_calls < MaxDCalls
    /\ set_goal(gx, gy)
    /\ UNCHANGED <<gridVars, astarVars, rrtVars, sceneVars, mapVars, navVars, convVars>>

\* find_path up to its loop (lines 108-124); cc_in is cost_changes on entry
find_path_entry(sx, sy, op, cc_in, diff_in) ==
    IF ~d_goal.set \/ ~is_valid_position(grid, sx, sy)
    THEN /\ d_last' = [DCall(op, <<sx, sy>>) EXCEPT !.replanned = (op = "replan")]
         /\ cost_changes' = cc_in
         /\ d_ghost' = [d_ghost EXCEPT !.diff = diff_in, !.cmp = NoCmp]
         /\ UNCHANGED <<d_pc, d_start, nodes, open_list, replan_count, last_grid_state>>
    ELSE LET changed == changes_detected(grid, last_grid_state)
             cc == IF changed
                   THEN detected_changes(grid, cost_grid, last_grid_state.grid)
                   ELSE cc_in
             st0 == [ns |-> nodes, ol |-> open_list]
             st == IF changed THEN handle_environment_changes(st0, cc) ELSE st0
         IN  /\ cost_changes' = cc
             /\ replan_count' = IF changed THEN replan_count + 1 ELSE replan_count
             /\ last_grid_state' = IF changed THEN [set |-> TRUE, grid |-> grid]
                                   ELSE last_grid_state
             /\ nodes' = get_or_create_node(st.ns, <<sx, sy>>)
             /\ open_list' = st.ol
             /\ d_pc' = "search"
             /\ d_start' = <<sx, sy>>
             /\ d_last' = [DCall(op, <<sx, sy>>) EXCEPT
                              !.replanned = (op = "replan"),
                              !.running = TRUE,
                              !.entered = TRUE,
                              !.reachable = Reachable(grid, <<sx, sy>>,
                                                      <<d_goal.x, d_goal.y>>)]
             /\ d_ghost' = [d_ghost EXCEPT
                              !.diff = TrueDiff,
                              !.cmp = NoCmp,
                              !.snap = IF changed THEN TravMap(grid, cost_grid) ELSE @]

\* find_path(start_x, start_y)
dstar_find_path(sx, sy) ==
    /\ d_calls' = d_calls + 1
    /\ find_path_entry(sx, sy, "find_path", cost_changes, NoDiff)
    /\ UNCHANGED <<d_goal, last_path, d_stats, d_timeouts>>

DStarFindPath(sx, sy) ==
    /\ d_pc = "idle"
    /\ d_calls < MaxDCalls
    /\ dstar_find_path(sx, sy)
    /\ UNCHANGED <<gridVars, astarVars, rrtVars, sceneVars, mapVars, navVars, convVars>>

\* replan_if_needed(current_x, current_y)
DStarReplanIfNeeded(cx, cy) ==
    /\ d_pc = "idle"
    /\ d_calls < MaxDCalls
    /\ d_calls' = d_calls + 1
    /\ IF changes_detected(grid, last_grid_state)
       THEN find_path_entry(cx, cy, "replan",
                            detected_changes(grid, cost_grid, last_grid_state.grid),
                            TrueDiff)
       ELSE /\ d_last' = DCall("replan", <<cx, cy>>)
            /\ d_ghost' = [d_ghost EXCEPT !.diff = TrueDiff, !.cmp = NoCmp]
            /\ UNCHANGED <<d_pc, d_start, nodes, open_list, cost_changes, replan_count,
                           last_grid_state>>
    /\ UNCHANGED <<d_goal, last_path, d_stats, d_timeouts, gridVars, astarVars, rrtVars, sceneVars, mapVars, navVars, convVars>>

\* one iteration of the loop of find_path (lines 126-132)
DStarProcess ==
    /\ d_pc = "search"
    /\ open_list # << >>
    /\ LET st == process_state([ns |-> nodes, ol |-> open_list])
       IN  /\ nodes' = st.ns
           /\ open_list' = st.ol
           /\ d_pc' = IF st.ns[d_start].tag = "CLOSED" /\ st.ns[d_start].cost < INF
                      THEN "extract" ELSE "search"
    /\ d_ghost' = [d_ghost EXCEPT !.iterations = @ + 1]
    /\ UNCHANGED <<d_start, d_goal, last_path, cost_changes, last_grid_state, replan_count,
                   d_stats, d_last, d_calls, d_timeouts, gridVars, astarVars,
                   rrtVars, sceneVars, mapVars, navVars, convVars>>

\* what the finished search says of the previous successful one from the same start
CompareWithPrev(success, cost) ==
    LET prev == d_ghost.prev
        trav == TravMap(grid, cost_grid)
    IN  IF prev.set /\ prev.start = d_start
        THEN LET up == {c \in DOMAIN grid : trav[c] > prev.trav[c]}
                 down == {c \in DOMAIN grid : trav[c] < prev.trav[c]}
                 on_path == {prev.path[i] : i \in 1 .. Len(prev.path)}
             IN  [set |-> TRUE,
                  raised |-> down = {} /\ up \cap on_path # {},
                  lowered |-> up = {} /\ down # {},
                  old |-> prev.cost,
                  new |-> IF success THEN cost ELSE INF]
        ELSE NoCmp

\* the end of find_path (lines 134-159)
find_path_exit(timeout, timeouts) ==
    LET res == search_result(nodes, d_start)
        success == res.success
        path == extract_path(nodes, d_start, <<d_goal.x, d_goal.y>>, << >>)
    IN  /\ last_path' = IF success THEN path ELSE last_path
        /\ d_stats' = IF success
                      THEN [present |-> TRUE, path_length |-> Len(path),
                            path_cost |-> res.path_cost,
                            replan_count |-> replan_count, success |-> TRUE]
                      ELSE [present |-> TRUE, path_length |-> 0, path_cost |-> INF,
                            replan_count |-> replan_count, success |-> FALSE]
        /\ d_last' = [d_last EXCEPT !.running = FALSE, !.ok = success,
                                    !.path = IF success THEN path ELSE << >>,
                                    !.timeout = timeout]
        /\ d_ghost' = [d_ghost EXCEPT
                         !.iterations = 0,
                         !.cmp = CompareWithPrev(success, res.path_cost),
                         !.prev = IF success
                                  THEN [set |-> TRUE, start |-> d_start,
                                        cost |-> res.path_cost, path |-> path,
                                        trav |-> TravMap(grid, cost_grid)]
                                  ELSE @]
        /\ d_pc' = "idle"
        /\ d_timeouts' = timeouts
        /\ UNCHANGED <<d_start, d_goal, nodes, open_list, cost_changes, last_grid_state,
                       replan_count, d_calls, gridVars, astarVars, rrtVars, sceneVars, mapVars, navVars, convVars>>

\* the loop ended: the start node is settled or the open list is empty
DStarReturn ==
    /\ d_pc = "extract" \/ (d_pc = "search" /\ open_list = << >>)
    /\ find_path_exit(FALSE, d_timeouts)

\* the loop ended because the timeout ran out
DStarTimeout ==
    /\ d_pc = "search"
    /\ open_list # << >>
    /\ d_timeouts < MaxDTimeouts
    /\ find_path_exit(TRUE, d_timeouts + 1)

-----------------------------------------------------------------------------
(* RRTStarPathfinder.  Node coordinates are floats in pixels in the source;  *)
(* here they are integers in thousandths of a pixel, costs likewise (a cost  *)
(* is a length in pixels times a cost multiplier).  A node is its index in   *)
(* the tree; parent is an index (0 for None), children a list of indices.    *)

PX == 1000                        \* thousandths of a pixel
MaxIterations == 5                \* max_iterations: loop iterations of one find_path
optimize_iterations == 1000
step_size == 3 * PX
goal_tolerance == 2 * PX
rewire_radius == 6 * PX
collision_cost == 10 * SCALE      \* a sampled cell dearer than this is a collision

\* pixel_to_grid of a float pixel
pixel_to_grid_f(x, y) ==
    << Max(0, Min(grid_width - 1, TruncDiv(x, resolution * PX))),
       Max(0, Min(grid_height - 1, TruncDiv(y, resolution * PX))) >>

\* grid_to_pixel returning the far edge of the cell instead of its centre
grid_to_pixel_far_edge(gx, gy) ==
    << (gx + 1) * resolution * PX, (gy + 1) * resolution * PX >>

\* grid_to_pixel: the centre of the cell
grid_to_pixel(gx, gy) ==
    << ((2 * gx + 1) * resolution * PX) \div 2, ((2 * gy + 1) * resolution * PX) \div 2 >>

RRTNode(x, y) == [x |-> x, y |-> y, parent |-> 0, children |-> << >>, cost |-> 0]

Dist2(a, b) == (a.x - b.x) * (a.x - b.x) + (a.y - b.y) * (a.y - b.y)

\* RRTNode.distance_to
distance_to(a, b) == ISqrt(Dist2(a, b))

\* distance * multiplier with float('inf')
Times(d, m) == IF m >= INF THEN INF ELSE (d * m) \div SCALE

\* _find_nearest_node: the first node at the least distance
find_nearest_node(t, sample) ==
    CHOOSE i \in 1 .. Len(t) :
        /\ \A j \in 1 .. Len(t) : Dist2(t[i], sample) <= Dist2(t[j], sample)
        /\ \A j \in 1 .. i - 1 : Dist2(t[j], sample) > Dist2(t[i], sample)

\* _extend_towards
extend_towards(from, to) ==
    IF Dist2(from, to) <= step_size * step_size
    THEN RRTNode(to.x, to.y)
    ELSE LET d == distance_to(from, to)
         IN  RRTNode(from.x + TruncDiv(step_size * (to.x - from.x), d),
                     from.y + TruncDiv(step_size * (to.y - from.y), d))

\* the point at i / n of the way from a to b
PointAt(a, b, i, n) ==
    << a.x + TruncDiv(i * (b.x - a.x), n), a.y + TruncDiv(i * (b.y - a.y), n) >>

\* the cell of the point at i / n of the way from a to b
CellAt(a, b, i, n) ==
    LET pt == PointAt(a, b, i, n) IN pixel_to_grid_f(pt[1], pt[2])

\* _is_path_collision_free
is_path_collision_free(g, cg, from, to) ==
    LET num_samples == distance_to(from, to) \div (2 * PX) + 1
    IN  \A i \in 0 .. num_samples :
            LET c == CellAt(from, to, i, num_samples)
            IN  /\ is_valid_position(g, c[1], c[2])
                /\ get_cost(g, cg, c[1], c[2]) <= collision_cost

\* _find_near_nodes: in tree order
find_near_nodes(t, node) ==
    SelectSeq([i \in 1 .. Len(t) |-> i],
              LAMBDA i : Dist2(t[i], node) <= rewire_radius * rewire_radius)

\* _get_path_cost_multiplier: the mean cost of five cells along the segment,
\* float('inf') when one of them is not valid (get_cost is INF for those only)
get_path_cost_multiplier(g, cg, from, to) ==
    LET costs == [i \in 0 .. 4 |->
                     get_cost(g, cg, CellAt(from, to, i, 4)[1], CellAt(from, to, i, 4)[2])]
    IN  IF \E i \in 0 .. 4 : costs[i] >= INF
        THEN INF
        ELSE (costs[0] + costs[1] + costs[2] + costs[3] + costs[4]) \div 5

\* parent.cost + parent.distance_to(node) * multiplier
cost_through(g, cg, parent, node) ==
    Plus(parent.cost,
         Times(distance_to(parent, node), get_path_cost_multiplier(g, cg, parent, node)))

\* the new node under parent p of the tree, when that is cheaper than best
better_parent(g, cg, t, p, new_node, best, cost) ==
    IF is_path_collision_free(g, cg, t[p], new_node) /\ cost < best.cost
    THEN [new_node EXCEPT !.parent = p, !.cost = cost]
    ELSE best

\* lines 124-136: the parent of least cost, the nearest node unless a near one is
\* cheaper; best is the new node with the parent and the cost found so far
RECURSIVE choose_parent(_, _, _, _, _, _)
choose_parent(g, cg, t, near, new_node, best) ==
    IF near = << >> THEN best
    ELSE choose_parent(g, cg, t, Tail(near), new_node,
                       better_parent(g, cg, t, Head(near), new_node, best,
                                     cost_through(g, cg, t[Head(near)], new_node)))

\* _would_create_cycle: child is an ancestor of new_parent
RECURSIVE IsAncestor(_, _, _)
IsAncestor(t, cur, child) ==
    IF cur = 0 THEN FALSE
    ELSE IF cur = child THEN TRUE
    ELSE IsAncestor(t, t[cur].parent, child)

would_create_cycle(t, new_parent, child) == IsAncestor(t, t[new_parent].parent, child)

\* _update_costs_recursive
RECURSIVE update_costs_recursive(_, _, _)
update_costs_recursive(t, i, new_cost) ==
    LET old_cost == t[i].cost
        t1 == [t EXCEPT ![i].cost = new_cost]
        children == t[i].children
        each[k \in 0 .. Len(children)] ==
            IF k = 0 THEN t1
            ELSE update_costs_recursive(each[k - 1], children[k],
                     IF each[k - 1][children[k]].cost >= INF THEN INF
                     ELSE each[k - 1][children[k]].cost + (new_cost - old_cost))
    IN  IF old_cost >= INF \/ new_cost >= INF THEN t1 ELSE each[Len(children)]

\* line 271: the path through the new node is better
rewire_worsens(potential_cost, near_cost) == potential_cost > near_cost

rewire_improves(potential_cost, near_cost) == potential_cost < near_cost

\* list.remove: the list without the first occurrence of v
list_remove(list, v) ==
    IF \E k \in 1 .. Len(list) : list[k] = v
    THEN LET k == CHOOSE j \in 1 .. Len(list) :
                      list[j] = v /\ \A m \in 1 .. j - 1 : list[m] # v
         IN  SubSeq(list, 1, k - 1) \o SubSeq(list, k + 1, Len(list))
    ELSE list

\* lines 272-278 with the near node left in its old parent's children list
reparent_keep_child(t, new, i) ==
    [t EXCEPT ![i].parent = new, ![new].children = Append(@, i)]

\* lines 272-278: the near node i leaves its old parent's children list and
\* joins the new node's
reparent(t, new, i) ==
    LET old == t[i].parent
        removed == IF old # 0 THEN [t EXCEPT ![old].children = list_remove(@, i)] ELSE t
    IN  [removed EXCEPT ![i].parent = new, ![new].children = Append(@, i)]

\* lines 266-281 for the near node i
rewire_node(g, cg, t, new, i, potential_cost) ==
    IF /\ ~would_create_cycle(t, new, i)
       /\ rewire_improves(potential_cost, t[i].cost)
       /\ is_path_collision_free(g, cg, t[new], t[i])
    THEN update_costs_recursive(reparent(t, new, i), i, potential_cost)
    ELSE t

\* _rewire_tree; new is the index of the new node
RECURSIVE rewire_tree(_, _, _, _, _)
rewire_tree(g, cg, t, new, near) ==
    IF near = << >> THEN t
    ELSE rewire_tree(g, cg,
                     rewire_node(g, cg, t, new, Head(near),
                                 cost_through(g, cg, t[new], t[Head(near)])),
                     new, Tail(near))

\* _extract_path, as indices into the tree from the start to the node
RECURSIVE rrt_extract_path(_, _, _)
rrt_extract_path(t, cur, acc) ==
    IF cur = 0 THEN acc ELSE rrt_extract_path(t, t[cur].parent, <<cur>> \o acc)

InGoalRegion(node, goal) == Dist2(node, goal) <= goal_tolerance * goal_tolerance

NoRRTStats == [present |-> FALSE, iterations |-> 0, path_length |-> 0, path_cost |-> 0,
               tree_size |-> 0, goal_found_iteration |-> 0, success |-> FALSE]

InitRRT ==
    /\ r_pc = "idle"
    /\ r_args = [start |-> RRTNode(0, 0), goal |-> RRTNode(0, 0),
                 optimize_iterations |-> optimize_iterations]
    /\ tree = << >>
    /\ goal_found = FALSE
    /\ best_goal_node = 0
    /\ best_cost = INF
    /\ iterations = 0
    /\ r_result = NoPath
    /\ r_stats = NoRRTStats
    /\ r_first = [set |-> FALSE, node |-> 0, cost |-> 0, iteration |-> 0]

\* find_path up to its loop (lines 68-92)
rrt_find_path(sx, sy, gx, gy, optimize) ==
    /\ LET sp == grid_to_pixel(sx, sy)
           gp == grid_to_pixel(gx, gy)
       IN  IF ~is_valid_position(grid, sx, sy) \/ ~is_valid_position(grid, gx, gy)
           THEN /\ r_pc' = "done"
                /\ r_result' = NoPath
                /\ r_args' = [start |-> RRTNode(sp[1], sp[2]), goal |-> RRTNode(gp[1], gp[2]),
                              optimize_iterations |-> optimize]
                /\ UNCHANGED <<tree, goal_found, best_goal_node, best_cost,
                               iterations, r_stats, r_first>>
           ELSE /\ r_pc' = "loop"
                /\ r_args' = [start |-> RRTNode(sp[1], sp[2]), goal |-> RRTNode(gp[1], gp[2]),
                              optimize_iterations |-> optimize]
                /\ tree' = << RRTNode(sp[1], sp[2]) >>
                /\ goal_found' = FALSE
                /\ best_goal_node' = 0
                /\ best_cost' = INF
                /\ iterations' = 0
                /\ r_first' = [set |-> FALSE, node |-> 0, cost |-> 0, iteration |-> 0]
                /\ UNCHANGED <<r_result, r_stats>>

RRTFindPath(sx, sy, gx, gy, optimize) ==
    /\ r_pc = "idle"
    /\ rrt_find_path(sx, sy, gx, gy, optimize)
    /\ UNCHANGED <<gridVars, astarVars, dstarVars, sceneVars, mapVars, navVars, convVars>>

\* lines 144-154 for the node added at index new of the rewired tree
goal_check(placed, new, rewired) ==
    LET at_goal == InGoalRegion(placed, r_args.goal)
        better == at_goal /\ rewired[new].cost < best_cost
    IN  /\ tree' = rewired
        /\ goal_found' = (goal_found \/ at_goal)
        /\ best_goal_node' = IF better THEN new ELSE best_goal_node
        /\ best_cost' = IF better THEN rewired[new].cost ELSE best_cost
        /\ r_first' = IF at_goal /\ ~r_first.set
                      THEN [set |-> TRUE, node |-> new, cost |-> placed.cost,
                            iteration |-> iterations]
                      ELSE r_first

\* lines 135-141: the node joins the tree under its parent, the tree is rewired
add_node(placed, near_nodes) ==
    goal_check(placed, Len(tree) + 1,
               rewire_tree(grid, cost_grid,
                           Append([tree EXCEPT ![placed.parent].children =
                                                   Append(@, Len(tree) + 1)],
                                  placed),
                           Len(tree) + 1, near_nodes))

\* lines 121-136
connect(nearest, new_node, near_nodes) ==
    add_node(choose_parent(grid, cost_grid, tree, near_nodes, new_node,
                 [new_node EXCEPT !.parent = nearest,
                                  !.cost = cost_through(grid, cost_grid, tree[nearest],
                                                        new_node)]),
             near_nodes)

\* lines 106-118
extend_tree(nearest, new_node) ==
    IF ~is_path_collision_free(grid, cost_grid, tree[nearest], new_node)
    THEN UNCHANGED <<tree, goal_found, best_goal_node, best_cost, r_first>>
    ELSE connect(nearest, new_node, find_near_nodes(tree, new_node))

\* one iteration of the loop (lines 95-156) with the sampled point given
RRTIterate(sample_point) ==
    /\ r_pc = "loop"
    /\ iterations < MaxIterations
    /\ iterations' = iterations + 1
    /\ extend_tree(find_nearest_node(tree, sample_point),
                   extend_towards(tree[find_nearest_node(tree, sample_point)], sample_point))
    /\ UNCHANGED <<r_pc, r_args, r_result, r_stats, gridVars, astarVars, dstarVars,
                   sceneVars, mapVars, navVars, convVars>>

\* the end of find_path (lines 167-197)
rrt_find_path_exit ==
    /\ r_pc' = "done"
    /\ IF best_goal_node # 0
       THEN LET path == rrt_extract_path(tree, best_goal_node, << >>)
                cells == [i \in 1 .. Len(path) |->
                             pixel_to_grid_f(tree[path[i]].x, tree[path[i]].y)]
            IN  /\ r_result' = [found |-> TRUE, path |-> cells]
                /\ r_stats' = [present |-> TRUE, iterations |-> iterations,
                               path_length |-> Len(path),
                               path_cost |-> tree[best_goal_node].cost,
                               tree_size |-> Len(tree),
                               goal_found_iteration |->
                                   IF goal_found THEN iterations - r_args.optimize_iterations
                                   ELSE -1,
                               success |-> TRUE]
       ELSE /\ r_result' = NoPath
            /\ r_stats' = [present |-> TRUE, iterations |-> iterations, path_length |-> 0,
                           path_cost |-> INF, tree_size |-> Len(tree),
                           goal_found_iteration |-> -1, success |-> FALSE]
    /\ UNCHANGED <<r_args, tree, goal_found, best_goal_node, best_cost, iterations, r_first,
                   gridVars, astarVars, dstarVars, sceneVars, mapVars, navVars, convVars>>

\* the loop ended: max_iterations reached
RRTReturn ==
    /\ r_pc = "loop"
    /\ iterations >= MaxIterations
    /\ rrt_find_path_exit

\* the loop ended because the timeout ran out
RRTTimeout ==
    /\ r_pc = "loop"
    /\ iterations < MaxIterations
    /\ rrt_find_path_exit

-----------------------------------------------------------------------------
(* SceneMemorySystem.  A detection is a record [class_name, confidence (in  *)
(* hundredths), cx, cy, w, h] (the centre and the size of its bbox).  A     *)
(* Python dict is a sequence in insertion order.                            *)

MaxFrames == 7                 \* update_scene_memory calls per behaviour

memory_duration == 1800        \* 30 minutes, in seconds
DefaultMaxTrackingObjects == 50
DaySeconds == 86400            \* strftime('%H%M%S%f') drops the date
DisappearAfter == 10           \* seconds unseen before an object is dropped
TrackConfidence == 60          \* 0.6
EnvConfidence == 70            \* 0.7
EnvGap == 300                  \* 5 minutes, in seconds

\* position of the entry with this id in a dict, 0 when absent
DictIndex(d, id) ==
    IF \E i \in 1 .. Len(d) : d[i].id = id
    THEN CHOOSE i \in 1 .. Len(d) : d[i].id = id
    ELSE 0

\* d[id] = entry : an existing key keeps its position, a new one goes last
DictSet(d, entry) ==
    IF DictIndex(d, entry.id) = 0 THEN Append(d, entry)
    ELSE [d EXCEPT ![DictIndex(d, entry.id)] = entry]

DictDel(d, id) == SelectSeq(d, LAMBDA e : e.id # id)

DictKeys(d) == { d[i].id : i \in 1 .. Len(d) }

\* lines 148-164: the similarity of a tracked object and a detection, in
\* ten-thousandths: 0.7 * max(0, 1 - distance / 200) + 0.3 * size ratio
Similarity(obj, det) ==
    LET dx == obj.cx - det.cx
        dy == obj.cy - det.cy
        distance10 == ISqrt((dx * dx + dy * dy) * 100)
        old_area == obj.w * obj.h
        new_area == det.w * det.h
        size_ratio == (Min(old_area, new_area) * 1000) \div Max(old_area, new_area)
        distance_score == Max(0, 1000 - distance10 \div 2)
    IN  7 * distance_score + 3 * size_ratio

\* _find_matching_object: index of the best match, 0 for None; the objects
\* are visited in dict order and a later one wins only if strictly better
RECURSIVE find_matching_object(_, _, _, _, _)
find_matching_object(objs, det, i, best_match, best_similarity) ==
    IF i > Len(objs) THEN best_match
    ELSE IF objs[i].class_name # det.class_name
         THEN find_matching_object(objs, det, i + 1, best_match, best_similarity)
         ELSE LET sim == Similarity(objs[i], det)
              IN  IF sim > 5000 /\ sim > best_similarity
                  THEN find_matching_object(objs, det, i + 1, i, sim)
                  ELSE find_matching_object(objs, det, i + 1, best_match, best_similarity)

\* f"{class_name}_{timestamp.strftime('%H%M%S%f')}"
NewId(det, timestamp) == <<det.class_name, timestamp % DaySeconds>>

\* lines 79-119: one detection of the frame; st = [objs, traj, current,
\* new_objects, matched_objects]
TrackDetection(st, det, timestamp) ==
    IF det.confidence < TrackConfidence THEN st
    ELSE LET m == find_matching_object(st.objs, det, 1, 0, 0)
         IN  IF m # 0
             THEN LET id == st.objs[m].id
                      ti == DictIndex(st.traj, id)
                  IN  [objs |-> [st.objs EXCEPT ![m] =
                                   [@ EXCEPT !.last_seen = timestamp,
                                             !.confidence = det.confidence,
                                             !.cx = det.cx, !.cy = det.cy,
                                             !.w = det.w, !.h = det.h,
                                             !.stability_count = @ + 1]],
                       traj |-> IF ti = 0
                                THEN Append(st.traj, [id |-> id, points |-> <<timestamp>>])
                                ELSE [st.traj EXCEPT ![ti].points = Append(@, timestamp)],
                       current |-> st.current \cup {id},
                       new_objects |-> st.new_objects,
                       matched_objects |-> Append(st.matched_objects, id)]
             ELSE LET id == NewId(det, timestamp)
                  IN  [objs |-> DictSet(st.objs,
                                   [id |-> id, class_name |-> det.class_name,
                                    first_seen |-> timestamp, last_seen |-> timestamp,
                                    confidence |-> det.confidence,
                                    cx |-> det.cx, cy |-> det.cy, w |-> det.w, h |-> det.h,
                                    stability_count |-> 1]),
                       traj |-> st.traj,
                       current |-> st.current \cup {id},
                       new_objects |-> Append(st.new_objects, id),
                       matched_objects |-> st.matched_objects]

RECURSIVE TrackDetections(_, _, _)
TrackDetections(st, dets, timestamp) ==
    IF dets = << >> THEN st
    ELSE TrackDetections(TrackDetection(st, Head(dets), timestamp), Tail(dets), timestamp)

\* lines 121-129: objects of no detection of this frame, unseen for > 10 s
Gone(objs, current, timestamp) ==
    { objs[i].id : i \in { j \in 1 .. Len(objs) :
                             /\ objs[j].id \notin current
                             /\ timestamp - objs[j].last_seen > DisappearAfter } }

RECURSIVE DictSetAll(_, _)
DictSetAll(d, entries) ==
    IF entries = << >> THEN d
    ELSE DictSetAll(DictSet(d, Head(entries)), Tail(entries))

\* _update_object_tracking: <<tracked_objects, object_trajectories, disappeared_objects,
\* its lists new_objects, matched_objects and disappeared_objects>>
update_object_tracking(objs, traj, gone, dets, timestamp) ==
    LET st == TrackDetections([objs |-> objs, traj |-> traj, current |-> {},
                               new_objects |-> << >>, matched_objects |-> << >>],
                              dets, timestamp)
        g == Gone(st.objs, st.current, timestamp)
    IN  << SelectSeq(st.objs, LAMBDA e : e.id \notin g),
           st.traj,
           DictSetAll(gone, SelectSeq(st.objs, LAMBDA e : e.id \in g)),
           [new_objects |-> st.new_objects, matched_objects |-> st.matched_objects,
            disappeared_objects |-> g] >>

\* line 174: the classes detected with confidence above 0.6
SceneClasses(dets) ==
    { dets[i].class_name : i \in { j \in 1 .. Len(dets) : dets[j].confidence > TrackConfidence } }

\* lines 181-194: "stable" iff the change ratio is 0, that is iff no class
\* was added and none removed
change_is_stable(current, previous) ==
    Cardinality(current \ previous) + Cardinality(previous \ current) = 0

\* mutant: the score is nudged without being clamped
stability_update_unclamped(score, stable) ==
    IF stable THEN score + 1 ELSE score - 2

\* lines 197-200: +0.1 when stable, -0.2 otherwise, clamped to [0, 1]
stability_update(score, stable) ==
    IF stable THEN Min(10, score + 1) ELSE Max(0, score - 2)

Count(seq, x) == Cardinality({ i \in 1 .. Len(seq) : seq[i] = x })

\* env_signatures, in the order of the dict
EnvSignatures ==
    << [name |-> "computer_lab", sig |-> << <<"monitor", 2>>, <<"office-chair", 1>> >>],
       [name |-> "study_area", sig |-> << <<"table", 1>>, <<"office-chair", 1>> >>],
       [name |-> "reading_area", sig |-> << <<"books", 1>> >>],
       [name |-> "presentation_room", sig |-> << <<"whiteboard", 1>> >>],
       [name |-> "corridor", sig |-> << >>] >>

RECURSIVE SumSeq(_)
SumSeq(s) == IF s = << >> THEN 0 ELSE Head(s) + SumSeq(Tail(s))

EnvScore(sig, classes) ==
    LET met(i) == Count(classes, sig[i][1]) >= sig[i][2]
    IN  SumSeq([i \in 1 .. Len(sig) |-> IF met(i) THEN sig[i][2] ELSE 0])
        + (IF \A i \in 1 .. Len(sig) : met(i) THEN Len(sig) ELSE 0)

RECURSIVE classify_loop(_, _, _, _)
classify_loop(classes, i, best_match, best_score) ==
    IF i > Len(EnvSignatures) THEN best_match
    ELSE LET sc == EnvScore(EnvSignatures[i].sig, classes)
         IN  IF sc > best_score
             THEN classify_loop(classes, i + 1, EnvSignatures[i].name, sc)
             ELSE classify_loop(classes, i + 1, best_match, best_score)

\* _classify_environment
classify_environment(detected_classes) == classify_loop(detected_classes, 1, "general_area", 0)

EnvTypes == { EnvSignatures[i].name : i \in 1 .. Len(EnvSignatures) } \cup {"general_area"}

\* lines 221-234: the memory entry of the environment of this frame
update_environmental_memory(mem, last, env_type, timestamp) ==
    IF ~mem[env_type].known
    THEN [mem EXCEPT ![env_type] = [known |-> TRUE, visit_count |-> 1, duration_spent |-> 0]]
    ELSE [mem EXCEPT ![env_type] =
            [known |-> TRUE, visit_count |-> @.visit_count + 1,
             duration_spent |-> IF last.set /\ timestamp - last.timestamp < EnvGap
                                THEN @.duration_spent + (timestamp - last.timestamp)
                                ELSE @.duration_spent]]

\* mutant: the most stable objects are evicted first
RECURSIVE EvictIds_most_stable(_, _)
EvictIds_most_stable(objs, n) ==
    IF n <= 0 \/ objs = << >> THEN {}
    ELSE LET most == CHOOSE i \in 1 .. Len(objs) :
                        \A j \in 1 .. Len(objs) :
                           objs[i].stability_count >= objs[j].stability_count
         IN  {objs[most].id} \cup EvictIds_most_stable(DictDel(objs, objs[most].id), n - 1)

\* lines 305-314: the ids evicted when more than max_tracking_objects are
\* tracked: the first ones of a stable sort by stability_count
RECURSIVE EvictIds(_, _)
EvictIds(objs, n) ==
    IF n <= 0 \/ objs = << >> THEN {}
    ELSE LET least == CHOOSE i \in 1 .. Len(objs) :
                         \A j \in 1 .. Len(objs) :
                            \/ objs[i].stability_count < objs[j].stability_count
                            \/ (objs[i].stability_count = objs[j].stability_count /\ i <= j)
         IN  {objs[least].id} \cup EvictIds(DictDel(objs, objs[least].id), n - 1)

\* _cleanup_old_memory: <<tracked_objects, object_trajectories, disappeared_objects>>
cleanup_old_memory(objs, traj, gone, current_time) ==
    LET cutoff_time == current_time - memory_duration
        recent(t) == [id |-> t.id, points |-> SelectSeq(t.points, LAMBDA ts : ts > cutoff_time)]
        traj1 == [i \in 1 .. Len(traj) |-> recent(traj[i])]
        evict == EvictIds(objs, Len(objs) - max_tracking_objects)
    IN  << SelectSeq(objs, LAMBDA e : e.id \notin evict),
           SelectSeq(traj1, LAMBDA t : t.points # << >>),
           SelectSeq(gone, LAMBDA e : ~(e.last_seen < cutoff_time)) >>

\* update_scene_memory(detections, frame_timestamp)
update_scene_memory(dets, timestamp) ==
    /\ LET tr == update_object_tracking(tracked_objects, object_trajectories,
                                        disappeared_objects, dets, timestamp)
           cl == cleanup_old_memory(tr[1], tr[2], tr[3], timestamp)
           current == SceneClasses(dets)
           detected == SelectSeq([i \in 1 .. Len(dets) |-> dets[i]],
                                 LAMBDA d : d.confidence > EnvConfidence)
           env_type == classify_environment([i \in 1 .. Len(detected) |-> detected[i].class_name])
       IN  /\ tracked_objects' = cl[1]
           /\ object_trajectories' = cl[2]
           /\ disappeared_objects' = cl[3]
           /\ IF ~previous_scene.set
              THEN scene_stability_score' = scene_stability_score
              ELSE scene_stability_score' =
                      stability_update(scene_stability_score,
                                       change_is_stable(current, previous_scene.classes))
           /\ previous_scene' = [set |-> TRUE, classes |-> current]
           /\ environmental_memory' =
                 update_environmental_memory(environmental_memory, last_env, env_type, timestamp)
           /\ last_env' = [set |-> TRUE, timestamp |-> timestamp, env |-> env_type]
           /\ s_last' = [set |-> TRUE, detections |-> dets, timestamp |-> timestamp,
                         before |-> tracked_objects, tracking_summary |-> tr[4],
                         tracked |-> tr[1], gone |-> tr[3]]
    /\ now' = timestamp
    /\ frames' = frames + 1
    /\ UNCHANGED max_tracking_objects

UpdateSceneMemory(dets, timestamp) ==
    /\ frames < MaxFrames
    /\ timestamp >= now
    /\ update_scene_memory(dets, timestamp)
    /\ UNCHANGED <<gridVars, astarVars, dstarVars, rrtVars, mapVars, navVars, convVars>>

NoSceneCall == [set |-> FALSE, detections |-> << >>, timestamp |-> 0, before |-> << >>,
                tracking_summary |-> [new_objects |-> << >>, matched_objects |-> << >>,
                                      disappeared_objects |-> {}],
                tracked |-> << >>, gone |-> << >>]

\* SceneMemorySystem(max_tracking_objects = cap)
SceneMemorySystem(cap) ==
    /\ max_tracking_objects = cap
    /\ s_last = NoSceneCall
    /\ now = 0
    /\ frames = 0
    /\ tracked_objects = << >>
    /\ object_trajectories = << >>
    /\ disappeared_objects = << >>
    /\ scene_stability_score = 10
    /\ previous_scene = [set |-> FALSE, classes |-> {}]
    /\ environmental_memory =
          [e \in EnvTypes |-> [known |-> FALSE, visit_count |-> 0, duration_spent |-> 0]]
    /\ last_env = [set |-> FALSE, timestamp |-> 0, env |-> "unknown"]

InitScene == SceneMemorySystem(DefaultMaxTrackingObjects)

-----------------------------------------------------------------------------
(* LibraryMapBuilder.  A detection is a record [class_name, confidence (in  *)
(* hundredths), cx, cy (the centre of its bbox), frame_position,            *)
(* relative_size].  datetime.now() values are stored but never read by the  *)
(* builder and are left out, as are bbox_history and                        *)
(* object_tracking_history, which are only appended to.                     *)

confidence_threshold == 70     \* 0.7
memory_size == 100
RelationshipCap == 1000
RelationshipKeep == 500

\* the keys of library_zones in insertion order
ZoneNames ==
    << "study_area", "computer_lab", "reading_area", "presentation_area",
       "circulation_area", "corridor" >>

library_zones ==
    [ study_area        |-> << "table", "office-chair", "books" >>,
      computer_lab      |-> << "monitor", "office-chair", "table" >>,
      reading_area      |-> << "books", "office-chair" >>,
      presentation_area |-> << "whiteboard", "office-chair", "table" >>,
      circulation_area  |-> << "books", "table" >>,
      corridor          |-> << >> ]

\* f"{class_name}_{pos}_{center_x}_{center_y}", the centre rounded down to 50
generate_object_key(det) ==
    << det.class_name, det.frame_position, (det.cx \div 50) * 50, (det.cy \div 50) * 50 >>

is_landmark_object(det) ==
    /\ det.confidence > 80
    /\ \/ det.relative_size = "large"
       \/ det.class_name \in {"monitor", "whiteboard", "table"}

\* one round of the loop of _update_persistent_objects; st = <<objects, frequency>>
update_persistent_object(st, det) ==
    IF det.confidence < confidence_threshold THEN st
    ELSE LET key == generate_object_key(det)
             i == DictIndex(st[1], key)
             objs == IF i # 0
                     THEN [st[1] EXCEPT ![i].confidence = Max(@, det.confidence),
                                        ![i].frequency = @ + 1]
                     ELSE Append(st[1], [id |-> key,
                                         class_name |-> det.class_name,
                                         position |-> det.frame_position,
                                         confidence |-> det.confidence,
                                         frequency |-> 1,
                                         is_landmark |-> is_landmark_object(det)])
         IN  << objs, [st[2] EXCEPT ![det.class_name] = @ + 1] >>

RECURSIVE update_persistent_objects(_, _)
update_persistent_objects(st, dets) ==
    IF dets = << >> THEN st
    ELSE update_persistent_objects(update_persistent_object(st, Head(dets)), Tail(dets))

\* distance is the integer part of the square root; confidence is in
\* thousandths, being the mean of two values in hundredths
calculate_relationship(obj1, obj2) ==
    LET dx == obj1.cx - obj2.cx
        dy == obj1.cy - obj2.cy
        d2 == dx * dx + dy * dy
    IN  [object1 |-> obj1.class_name,
         object2 |-> obj2.class_name,
         relationship |-> IF Abs(dx) > Abs(dy)
                          THEN (IF dx > 0 THEN "left_of" ELSE "right_of")
                          ELSE (IF dy > 0 THEN "above" ELSE "below"),
         distance |-> ISqrt(d2),
         proximity |-> IF d2 < 100 * 100 THEN "close"
                       ELSE IF d2 < 200 * 200 THEN "moderate" ELSE "far",
         confidence |-> (obj1.confidence + obj2.confidence) * 5]

\* the pairs (i, j), i < j, in the order of the two nested loops
RECURSIVE PairsFrom(_, _)
PairsFrom(n, i) ==
    IF i >= n THEN << >>
    ELSE [k \in 1 .. n - i |-> <<i, i + k>>] \o PairsFrom(n, i + 1)

\* the records one call appends; serial is a history field: the number of
\* the record among all records ever created
relationships(dets, total) ==
    LET pairs == PairsFrom(Len(dets), 1)
    IN  [k \in 1 .. Len(pairs) |->
            [rel |-> calculate_relationship(dets[pairs[k][1]], dets[pairs[k][2]]),
             serial |-> total + k]]

\* a mutant of prune_relationships: keeps the oldest records
prune_relationships_oldest(log) ==
    IF Len(log) > RelationshipCap THEN SubSeq(log, 1, RelationshipKeep) ELSE log

prune_relationships(log) ==
    IF Len(log) > RelationshipCap
    THEN SubSeq(log, Len(log) - RelationshipKeep + 1, Len(log))
    ELSE log

analyze_spatial_context(log, dets, total) ==
    IF Len(dets) < 2 THEN log
    ELSE prune_relationships(log \o relationships(dets, total))

detected_classes(dets) ==
    LET confident == SelectSeq(dets, LAMBDA d : d.confidence > confidence_threshold)
    IN  [i \in 1 .. Len(confident) |-> confident[i].class_name]

RECURSIVE SumCounts(_, _)
SumCounts(classes, required) ==
    IF required = << >> THEN 0
    ELSE Count(classes, Head(required)) + SumCounts(classes, Tail(required))

zone_score(classes, required) ==
    SumCounts(classes, required)
    + (IF \A i \in 1 .. Len(required) : Count(classes, required[i]) > 0
       THEN Len(required) ELSE 0)

zone_scores(dets) ==
    [z \in SeqToSet(ZoneNames) |-> zone_score(detected_classes(dets), library_zones[z])]

\* a mutant of best_zone: the first key, whatever its score
best_zone_first_key(scores) == ZoneNames[1]

\* max(zone_scores, key=zone_scores.get): the first key of maximal score
best_zone(scores) ==
    ZoneNames[CHOOSE i \in 1 .. Len(ZoneNames) :
                 /\ \A j \in 1 .. Len(ZoneNames) : scores[ZoneNames[j]] <= scores[ZoneNames[i]]
                 /\ \A j \in 1 .. i - 1 : scores[ZoneNames[j]] < scores[ZoneNames[i]]]

zone_of(scores, best) == IF scores[best] > 0 THEN best ELSE "general_area"

classify_environment_zone(dets) == zone_of(zone_scores(dets), best_zone(zone_scores(dets)))

NoMapCall ==
    [set |-> FALSE, detections |-> << >>, zone_type |-> "general_area",
     rel_before |-> 0, persistent_objects |-> 0]

\* deque.append with maxlen
deque_append(q, e, maxlen) ==
    IF Len(q) >= maxlen THEN Append(Tail(q), e) ELSE Append(q, e)

\* update_map(detections); the return value is kept in m_last
update_map(dets) ==
    /\ recent_frames' = deque_append(recent_frames, dets, memory_size)
    /\ LET po == update_persistent_objects(<<persistent_objects, object_frequency>>, dets)
       IN  /\ persistent_objects' = po[1]
           /\ object_frequency' = po[2]
           /\ m_last' = [set |-> TRUE, detections |-> dets,
                         zone_type |-> classify_environment_zone(dets),
                         rel_before |-> Len(spatial_relationships),
                         persistent_objects |-> Len(po[1])]
    /\ spatial_relationships' = analyze_spatial_context(spatial_relationships, dets, rel_total)
    /\ rel_total' = rel_total + (IF Len(dets) < 2 THEN 0
                                 ELSE (Len(dets) * (Len(dets) - 1)) \div 2)

UpdateMap(dets) ==
    /\ update_map(dets)
    /\ UNCHANGED <<gridVars, astarVars, dstarVars, rrtVars, sceneVars, navVars, convVars>>

ObjectClasses == {"table", "office-chair", "books", "monitor", "whiteboard"}

InitMap ==
    /\ recent_frames = << >>
    /\ persistent_objects = << >>
    /\ object_frequency = [c \in ObjectClasses |-> 0]
    /\ spatial_relationships = << >>
    /\ rel_total = 0
    /\ m_last = NoMapCall

-----------------------------------------------------------------------------
(* NavigationPlanner.  A string that the planner searches is a sequence of  *)
(* one-character strings.  A request is a record [goal_description,         *)
(* start_pixel_pos, algorithm, strategy]; a detection carries the fields    *)
(* that the grid map, the scene memory and the map builder read.            *)

UpperCase == << "A", "B", "C", "D", "E", "F", "G", "H", "I", "J", "K", "L", "M", "N", "O", "P", "Q", "R", "S", "T", "U", "V", "W", "X", "Y", "Z" >>
LowerCase == << "a", "b", "c", "d", "e", "f", "g", "h", "i", "j", "k", "l", "m", "n", "o", "p", "q", "r", "s", "t", "u", "v", "w", "x", "y", "z" >>

\* str.lower()
lower(str) ==
    [i \in 1 .. Len(str) |->
        IF \E k \in 1 .. 26 : UpperCase[k] = str[i]
        THEN LowerCase[CHOOSE k \in 1 .. 26 : UpperCase[k] = str[i]]
        ELSE str[i]]

\* a in b
IsSubstring(a, b) ==
    \E i \in 0 .. Len(b) - Len(a) : SubSeq(b, i + 1, i + Len(a)) = a

\* the characters of the zone names, which are the keys of known_locations
ZoneChars ==
    [ study_area        |-> << "s", "t", "u", "d", "y", "_", "a", "r", "e", "a" >>,
      computer_lab      |-> << "c", "o", "m", "p", "u", "t", "e", "r", "_", "l", "a", "b" >>,
      reading_area      |-> << "r", "e", "a", "d", "i", "n", "g", "_", "a", "r", "e", "a" >>,
      presentation_area |-> << "p", "r", "e", "s", "e", "n", "t", "a", "t", "i", "o", "n", "_", "a", "r", "e", "a" >>,
      circulation_area  |-> << "c", "i", "r", "c", "u", "l", "a", "t", "i", "o", "n", "_", "a", "r", "e", "a" >>,
      corridor          |-> << "c", "o", "r", "r", "i", "d", "o", "r" >> ]

Kw_computer == << "c", "o", "m", "p", "u", "t", "e", "r" >>
Kw_monitor == << "m", "o", "n", "i", "t", "o", "r" >>
Kw_study == << "s", "t", "u", "d", "y" >>
Kw_table == << "t", "a", "b", "l", "e" >>
Kw_reading == << "r", "e", "a", "d", "i", "n", "g" >>
Kw_book == << "b", "o", "o", "k" >>
Kw_presentation == << "p", "r", "e", "s", "e", "n", "t", "a", "t", "i", "o", "n" >>
Kw_whiteboard == << "w", "h", "i", "t", "e", "b", "o", "a", "r", "d" >>

\* lines 286-294
target_objects(goal_lower) ==
    IF IsSubstring(Kw_computer, goal_lower) \/ IsSubstring(Kw_monitor, goal_lower)
    THEN {"monitor"}
    ELSE IF IsSubstring(Kw_study, goal_lower) \/ IsSubstring(Kw_table, goal_lower)
    THEN {"table", "office-chair"}
    ELSE IF IsSubstring(Kw_reading, goal_lower) \/ IsSubstring(Kw_book, goal_lower)
    THEN {"books"}
    ELSE IF IsSubstring(Kw_presentation, goal_lower) \/ IsSubstring(Kw_whiteboard, goal_lower)
    THEN {"whiteboard"}
    ELSE {}

\* lines 277-279: the known locations whose name holds the goal or is held by it
LocationMatches(known, goal_lower) ==
    { i \in 1 .. Len(known) :
        \/ IsSubstring(goal_lower, lower(ZoneChars[known[i].id]))
        \/ IsSubstring(lower(ZoneChars[known[i].id]), goal_lower) }

FirstOf(S) == CHOOSE i \in S : \A j \in S : i <= j

Placeholder == <<20, 15>>

\* lines 296-311: the placeholder when a persistent object of a target class
\* scores above 0, the centre of the grid otherwise
infer_location(objs, targets) ==
    IF \E i \in 1 .. Len(objs) :
          objs[i].class_name \in targets /\ objs[i].confidence * objs[i].frequency > 0
    THEN Placeholder
    ELSE << grid_width \div 2, grid_height \div 2 >>

\* _resolve_goal_location: no path through it returns None
resolve_goal_location(goal_description) ==
    IF LocationMatches(known_locations, lower(goal_description)) # {}
    THEN [found |-> TRUE,
          pos |-> known_locations[FirstOf(LocationMatches(known_locations,
                                                          lower(goal_description)))].grid_pos]
    ELSE [found |-> TRUE,
          pos |-> infer_location(persistent_objects, target_objects(lower(goal_description)))]

ObstacleCells == { c \in DOMAIN grid : grid[c] = OBSTACLE }

\* _choose_algorithm; the stability score is in tenths
choose_algorithm(request) ==
    IF request.algorithm # "auto" THEN request.algorithm
    ELSE IF scene_stability_score < 7 THEN "dstar"
    ELSE IF \/ 10 * Cardinality(ObstacleCells) > 3 * Cardinality(DOMAIN grid)
            \/ request.strategy = "exploration"
    THEN "rrt_star"
    ELSE "astar"

NoRequest ==
    [goal_description |-> << >>, start_pixel_pos |-> <<0, 0>>, algorithm |-> "auto",
     strategy |-> "optimal"]

NoAction == [kind |-> "none", direction |-> "none", goal |-> << >>]

\* what plan_navigation returned, with the request, the goal_pos and the
\* known locations of the call; searched: a searcher was called
NoPlan ==
    [set |-> FALSE, calls |-> 0, request |-> NoRequest, goal_pos |-> <<0, 0>>,
     known |-> << >>, searched |-> FALSE, success |-> FALSE, path |-> << >>,
     algorithm_used |-> "auto", next_action |-> NoAction]

\* _generate_next_action
generate_next_action(path, goal_description) ==
    IF Len(path) > 1
    THEN [kind |-> "head",
          direction |-> IF Abs(path[2][1] - path[1][1]) > Abs(path[2][2] - path[1][2])
                        THEN (IF path[2][1] - path[1][1] > 0 THEN "right" ELSE "left")
                        ELSE (IF path[2][2] - path[1][2] > 0 THEN "forward" ELSE "backward"),
          goal |-> goal_description]
    ELSE [kind |-> "navigate", direction |-> "none", goal |-> goal_description]

\* lines 136-150: "Cannot locate '...' in current environment"
cannot_locate(request) ==
    [set |-> TRUE, calls |-> n_last.calls + 1, request |-> request, goal_pos |-> <<0, 0>>,
     known |-> known_locations, searched |-> FALSE, success |-> FALSE, path |-> << >>,
     algorithm_used |-> request.algorithm,
     next_action |-> [kind |-> "cannot_locate", direction |-> "none",
                      goal |-> request.goal_description]]

\* _plan_with_algorithm up to the first call of a searcher
plan_with_algorithm(algorithm, start_grid, goal_pos) ==
    CASE algorithm = "astar" ->
            /\ astar_find_path(start_grid[1], start_grid[2], goal_pos[1], goal_pos[2], TRUE)
            /\ n_pc' = "wait"
            /\ UNCHANGED <<dstarVars, rrtVars>>
      [] algorithm = "dstar" ->
            /\ set_goal(goal_pos[1], goal_pos[2])
            /\ n_pc' = "find_path"
            /\ UNCHANGED <<astarVars, rrtVars>>
      [] algorithm = "rrt_star" ->
            /\ rrt_find_path(start_grid[1], start_grid[2], goal_pos[1], goal_pos[2],
                             optimize_iterations)
            /\ n_pc' = "wait"
            /\ UNCHANGED <<astarVars, dstarVars>>

\* plan_navigation up to the first call of a searcher (lines 130-159)
PlanNavigation(request) ==
    /\ n_pc = "idle"
    /\ n_request' = request
    /\ IF ~resolve_goal_location(request.goal_description).found
       THEN /\ n_last' = cannot_locate(request)
            /\ UNCHANGED <<n_pc, n_goal, n_algorithm, astarVars, dstarVars, rrtVars>>
       ELSE /\ n_goal' = resolve_goal_location(request.goal_description).pos
            /\ n_algorithm' = choose_algorithm(request)
            /\ plan_with_algorithm(choose_algorithm(request),
                                   pixel_to_grid(request.start_pixel_pos[1],
                                                 request.start_pixel_pos[2]),
                                   resolve_goal_location(request.goal_description).pos)
            /\ UNCHANGED n_last
    /\ UNCHANGED <<current_goal, active_path, last_planning_result, known_locations,
                   gridVars, sceneVars, mapVars, convVars>>

\* line 349: dstar.find_path after dstar.set_goal
PlanDStarFindPath ==
    /\ n_pc = "find_path"
    /\ dstar_find_path(pixel_to_grid(n_request.start_pixel_pos[1], n_request.start_pixel_pos[2])[1],
                       pixel_to_grid(n_request.start_pixel_pos[1], n_request.start_pixel_pos[2])[2])
    /\ n_pc' = "wait"
    /\ UNCHANGED <<n_request, n_goal, n_algorithm, current_goal, active_path,
                   last_planning_result, known_locations, n_last,
                   gridVars, astarVars, rrtVars, sceneVars, mapVars, convVars>>

\* the searcher of the running call has returned
SearcherReturned ==
    CASE n_algorithm = "astar" -> a_pc = "done"
      [] n_algorithm = "dstar" -> d_pc = "idle"
      [] n_algorithm = "rrt_star" -> r_pc = "done"

\* path_result of _plan_with_algorithm (lines 357-364)
path_result ==
    CASE n_algorithm = "astar" -> [success |-> a_result.found, path |-> a_result.path]
      [] n_algorithm = "dstar" -> [success |-> d_last.ok, path |-> d_last.path]
      [] n_algorithm = "rrt_star" -> [success |-> r_result.found, path |-> r_result.path]

\* lines 161-185
navigation_result(res) ==
    [set |-> TRUE, calls |-> n_last.calls + 1, request |-> n_request, goal_pos |-> n_goal,
     known |-> known_locations, searched |-> TRUE, success |-> res.success,
     path |-> IF res.success THEN res.path ELSE << >>,
     algorithm_used |-> n_algorithm,
     next_action |-> IF res.success
                     THEN generate_next_action(res.path, n_request.goal_description)
                     ELSE [kind |-> "no_path", direction |-> "none", goal |-> << >>]]

\* plan_navigation from the return of the searcher (lines 161-185)
PlanReturn ==
    /\ n_pc = "wait"
    /\ SearcherReturned
    /\ n_last' = navigation_result(path_result)
    /\ IF path_result.success
       THEN /\ current_goal' = [set |-> TRUE, pos |-> n_goal]
            /\ active_path' = path_result.path
            /\ last_planning_result' = navigation_result(path_result)
       ELSE UNCHANGED <<current_goal, active_path, last_planning_result>>
    /\ n_pc' = "idle"
    /\ UNCHANGED <<n_request, n_goal, n_algorithm, known_locations,
                   gridVars, astarVars, dstarVars, rrtVars, sceneVars, mapVars, convVars>>

RECURSIVE SumField(_, _)
SumField(dets, f) ==
    IF dets = << >> THEN 0 ELSE Head(dets)[f] + SumField(Tail(dets), f)

\* _update_known_locations: the cell of the mean centre of the detections;
\* confidence is the sum over the detections, the mean times their number
update_known_locations(known, zone_type, dets) ==
    IF zone_type = "general_area" \/ dets = << >> THEN known
    ELSE DictSet(known,
                 [id |-> zone_type,
                  grid_pos |-> << Max(0, Min(grid_width - 1,
                                             TruncDiv(SumField(dets, "cx"),
                                                      Len(dets) * resolution))),
                                  Max(0, Min(grid_height - 1,
                                             TruncDiv(SumField(dets, "cy"),
                                                      Len(dets) * resolution))) >>,
                  confidence |-> SumField(dets, "confidence")])

\* update_environment(detections) at the time timestamp
UpdateEnvironment(dets, timestamp) ==
    /\ n_pc = "idle"
    /\ update_map(dets)
    /\ update_scene_memory(dets, timestamp)
    /\ grid_update(dets, FALSE)
    /\ known_locations' = update_known_locations(known_locations,
                                                 classify_environment_zone(dets), dets)
    /\ UNCHANGED <<n_pc, n_request, n_goal, n_algorithm,
                   current_goal, active_path, last_planning_result, n_last,
                   astarVars, dstarVars, rrtVars, convVars>>

InitNav ==
    /\ n_pc = "idle"
    /\ n_request = NoRequest
    /\ n_goal = <<0, 0>>
    /\ n_algorithm = "auto"
    /\ current_goal = [set |-> FALSE, pos |-> <<0, 0>>]
    /\ active_path = << >>
    /\ last_planning_result = NoPlan
    /\ known_locations = << >>
    /\ n_last = NoPlan

-----------------------------------------------------------------------------
(* Frames *)

\* the detections a frame can hold on the small grid: a table across the
\* row y = 1 from x = 2 to the right border, books on the cell (2,0), and a
\* monitor (not an obstacle class) on the cells (0,1) and (1,1)
DetectionPool ==
    { [class_name |-> "table", confidence |-> 90,
       x1 |-> 20, y1 |-> 10, x2 |-> 639, y2 |-> 19],
      [class_name |-> "books", confidence |-> 70,
       x1 |-> 20, y1 |-> 0, x2 |-> 29, y2 |-> 9],
      [class_name |-> "monitor", confidence |-> 80,
       x1 |-> 0, y1 |-> 10, x2 |-> 19, y2 |-> 19] }

Frames == UNION { [1 .. n -> DetectionPool] : n \in 0 .. MaxDets }

UpdateFromDetections(dets, clear_previous) ==
    /\ grid_update(dets, clear_previous)
    /\ UNCHANGED <<astarVars, dstarVars, rrtVars, sceneVars, mapVars, navVars, convVars>>

InitGrid(w, h, res) ==
    /\ grid_width = w
    /\ grid_height = h
    /\ resolution = res
    /\ grid = [c \in (0 .. w - 1) \X (0 .. h - 1) |-> FREE]
    /\ cost_grid = [c \in (0 .. w - 1) \X (0 .. h - 1) |-> SCALE]
    /\ updates = 0
    /\ g_last = [detections |-> << >>, clear_previous |-> FALSE, covered |-> {}]

-----------------------------------------------------------------------------
(* A caller that converts a pixel coordinate to a cell, the cell to its     *)
(* pixel coordinate and that one to a cell again.  Pixel coordinates are    *)
(* floats in the source and integers in thousandths of a pixel here.        *)

PixelToGrid(px, py) ==
    /\ cv_pc \in {"idle", "again"}
    /\ cv_pixel' = <<px, py>>
    /\ cv_cell' = pixel_to_grid_f(px, py)
    /\ cv_pc' = "cell"
    /\ UNCHANGED <<cv_image, cv_centre, cv_again, gridVars, astarVars, dstarVars, rrtVars,
                   sceneVars, mapVars, navVars>>

GridToPixel ==
    /\ cv_pc = "cell"
    /\ cv_centre' = grid_to_pixel(cv_cell[1], cv_cell[2])
    /\ cv_pc' = "centre"
    /\ UNCHANGED <<cv_image, cv_pixel, cv_cell, cv_again, gridVars, astarVars, dstarVars,
                   rrtVars, sceneVars, mapVars, navVars>>

PixelToGridAgain ==
    /\ cv_pc = "centre"
    /\ cv_again' = pixel_to_grid_f(cv_centre[1], cv_centre[2])
    /\ cv_pc' = "again"
    /\ UNCHANGED <<cv_image, cv_pixel, cv_cell, cv_centre, gridVars, astarVars, dstarVars,
                   rrtVars, sceneVars, mapVars, navVars>>

InitConv(width, height) ==
    /\ cv_pc = "idle"
    /\ cv_image = <<width, height>>
    /\ cv_pixel = <<0, 0>>
    /\ cv_cell = <<0, 0>>
    /\ cv_centre = <<0, 0>>
    /\ cv_again = <<0, 0>>

\* LibraryGridMap(width, height, resolution): lines 39-57
LibraryGridMap(width, height, res) ==
    /\ InitGrid(width \div res, height \div res, res)
    /\ InitConv(width, height)

InitAStar ==
    /\ a_pc = "idle"
    /\ a_args = NoArgs
    /\ open_set = << >>
    /\ closed_set = {}
    /\ node_map = << >>
    /\ nodes_explored = 0
    /\ a_result = NoPath
    /\ a_raw = << >>
    /\ a_stats = NoStats

Init ==
    /\ InitGrid(MaxGX, MaxGY, DefaultResolution) /\ InitAStar /\ InitDStar /\ InitRRT
    /\ InitScene
    /\ InitMap
    /\ InitNav
    /\ InitConv(grid_width * resolution, grid_height * resolution)

\* start and goal arguments: every cell and one position outside each border
ArgX == -1 .. grid_width
ArgY == -1 .. grid_height

Next ==
    \/ \E dets \in Frames, clear \in BOOLEAN :
          a_pc = "idle" /\ updates < MaxUpdates /\ UpdateFromDetections(dets, clear)
    \/ \E sx \in ArgX, gx \in ArgX, sy \in ArgY, gy \in ArgY, smooth \in BOOLEAN :
          AStarFindPath(sx, sy, gx, gy, smooth)
    \/ AStarStep
    \/ AStarExhausted
    \/ AStarTimeout

Spec == Init /\ [][Next]_vars

-----------------------------------------------------------------------------
(* The obstacle-avoidance scenario: a 640x480 frame at resolution 20, one   *)
(* obstacle detection covering the cells (10,10)-(15,15), A* from (2,2) to  *)
(* (20,18).                                                                 *)

AvoidScenario ==
    [width |-> 32, height |-> 24, resolution |-> 20,
     block |-> [x1 |-> 200, y1 |-> 200, x2 |-> 319, y2 |-> 319],
     start |-> <<2, 2>>, goal |-> <<20, 18>>]

AvoidDetection(class_name) ==
    [class_name |-> class_name, confidence |-> 90,
     x1 |-> AvoidScenario.block.x1, y1 |-> AvoidScenario.block.y1,
     x2 |-> AvoidScenario.block.x2, y2 |-> AvoidScenario.block.y2]

InitAvoid ==
    /\ InitGrid(AvoidScenario.width, AvoidScenario.height, AvoidScenario.resolution)
    /\ InitAStar
    /\ InitDStar
    /\ InitRRT
    /\ InitScene
    /\ InitMap
    /\ InitNav
    /\ InitConv(grid_width * resolution, grid_height * resolution)

NextAvoid ==
    \/ \E cn \in {"office-chair", "table", "books", "whiteboard"} :
          a_pc = "idle" /\ updates < 1 /\ UpdateFromDetections(<<AvoidDetection(cn)>>, FALSE)
    \/ \E smooth \in BOOLEAN :
          /\ updates = 1
          /\ AStarFindPath(AvoidScenario.start[1], AvoidScenario.start[2],
                           AvoidScenario.goal[1], AvoidScenario.goal[2], smooth)
    \/ AStarStep
    \/ AStarTimeout

SpecAvoid == InitAvoid /\ [][NextAvoid]_vars

\* the cells of a path
PathCells(path) == { path[i] : i \in 1 .. Len(path) }

\* C1: in the obstacle-avoidance scenario A* returns a path (unless the clock
\* ran out), and no cell of the returned path is an Obstacle cell or a cell
\* whose cost obstacle inflation raised above the free cost 1.0
C1_AvoidsObstacleAndBuffer ==
    (a_pc = "done" /\ ~a_stats.timeout) =>
        /\ a_result.found
        /\ \A c \in PathCells(a_result.path) :
              /\ c \in Cells
              /\ grid[c] # OBSTACLE
              /\ cost_grid[c] = SCALE

C1_Witness ==
    /\ a_pc = "done"
    /\ a_result.found
    /\ a_args.smooth
    /\ a_result.path[1] = AvoidScenario.start
    /\ a_result.path[Len(a_result.path)] = AvoidScenario.goal
    /\ \A x \in 10 .. 15, y \in 10 .. 15 : grid[<<x, y>>] = OBSTACLE
    /\ Cardinality({c \in Cells : grid[c] = OBSTACLE}) = 36
    /\ cost_grid[<<8, 10>>] = inflated_cost
    /\ cost_grid[<<10, 8>>] = inflated_cost
    /\ cost_grid[<<9, 8>>] = SCALE

-----------------------------------------------------------------------------
(* Properties of A* on the small grids (specification Spec) *)

AllFree == \A c \in Cells : grid[c] = FREE /\ cost_grid[c] = SCALE

ArgsInBounds == a_args.start \in Cells /\ a_args.goal \in Cells

ArgDx == Abs(a_args.start[1] - a_args.goal[1])
ArgDy == Abs(a_args.start[2] - a_args.goal[2])

\* sqrt(2) * min(|dx|,|dy|) + (max(|dx|,|dy|) - min(|dx|,|dy|))
StraightLineCost ==
    SQRT2 * Min(ArgDx, ArgDy) + SCALE * (Max(ArgDx, ArgDy) - Min(ArgDx, ArgDy))

\* a find_path call has returned without running into the timeout
AStarReturned == a_pc = "done" /\ ~a_stats.timeout

\* C2: on a grid where every cell is Free with cost 1, for every in-bounds
\* start and goal, find_path succeeds and the reported path_cost is the
\* straight-line cost with diagonal moves costing sqrt(2)
C2_EmptyGridCost ==
    (AStarReturned /\ AllFree /\ ArgsInBounds) =>
        /\ a_result.found
        /\ a_stats.success
        /\ a_stats.path_cost = StraightLineCost

C2_Witness ==
    /\ AStarReturned /\ AllFree /\ ArgsInBounds
    /\ ArgDx = 3 /\ ArgDy = 2
    /\ a_stats.path_cost = 2 * SQRT2 + SCALE

\* the start and the goal of the call are one valid cell
TrivialCall ==
    /\ a_args.start = a_args.goal
    /\ is_valid_position(grid, a_args.start[1], a_args.start[2])

\* C19: A* find_path with start equal to goal (a valid cell) returns the
\* one-cell path [start] with path_cost 0 and success=true.
C19_TrivialCase ==
    (AStarReturned /\ TrivialCall) =>
        /\ a_result = [found |-> TRUE, path |-> << a_args.start >>]
        /\ a_stats.present /\ a_stats.success
        /\ a_stats.path_cost = 0
        /\ a_stats.path_length = 1
        /\ a_stats.nodes_explored = 1

\* the call returned for a cell next to an obstacle, with smoothing on
C19_Witness ==
    /\ AStarReturned /\ TrivialCall
    /\ a_args.smooth
    /\ \E c \in Cells : grid[c] = OBSTACLE
    /\ cost_grid[a_args.start] > SCALE
    /\ a_result.found /\ a_result.path = << a_args.start >>

\* C3 as stated: with the default arguments (smooth_path=True) the returned
\* path has at least max(|dx|,|dy|)+1 cells on an obstacle-free grid
C3_Original ==
    (AStarReturned /\ AllFree /\ ArgsInBounds /\ a_args.smooth) =>
        Len(a_result.path) >= Max(ArgDx, ArgDy) + 1

\* C3 amended: on an obstacle-free grid the path returned with
\* smooth_path=False has at least max(|dx|,|dy|)+1 cells; with the default
\* smooth_path=True this holds of the path before smoothing, and the returned
\* path keeps at least 2 cells when start and goal differ
C3_UnsmoothedLength ==
    (AStarReturned /\ AllFree /\ ArgsInBounds) =>
        /\ Len(a_raw) >= Max(ArgDx, ArgDy) + 1
        /\ ~a_args.smooth => a_result.path = a_raw
        /\ Len(a_result.path) >= (IF a_args.start = a_args.goal THEN 1 ELSE 2)

C3_Witness ==
    /\ AStarReturned /\ AllFree /\ ArgsInBounds
    /\ ~a_args.smooth
    /\ ArgDx = 3 /\ ArgDy = 1
    /\ Len(a_result.path) = 4

-----------------------------------------------------------------------------
(* The scene memory fed a frame every FrameStep seconds (specification      *)
(* SpecStability)                                                           *)

FrameStep == 6

Monitor(cx, cy) ==
    [class_name |-> "monitor", confidence |-> 90, cx |-> cx, cy |-> cy, w |-> 50, h |-> 40]

Chair(confidence) ==
    [class_name |-> "office-chair", confidence |-> confidence,
     cx |-> 300, cy |-> 200, w |-> 60, h |-> 80]

StabilityFrames ==
    { << >>,
      << Monitor(100, 100) >>,
      << Monitor(110, 100), Chair(75) >>,
      << Chair(60) >> }

NextStability ==
    \E dets \in StabilityFrames : UpdateSceneMemory(dets, now + FrameStep)

SpecStability == Init /\ [][NextStability]_vars

\* C10: the scene stability score is within [0.0, 1.0] after every
\* update_scene_memory call, for any sequence of detection sets
C10_StabilityBounds ==
    /\ scene_stability_score >= 0
    /\ scene_stability_score <= 10

\* the score is 0.0 after seven frames: six comparisons with the previous
\* frame, so either all six lowered the score and the last one was clamped
\* at 0.0, or the first one found the scene stable and was clamped at 1.0
C10_Witness ==
    /\ frames >= 7
    /\ scene_stability_score = 0
    /\ previous_scene.set
    /\ Len(disappeared_objects) > 0

-----------------------------------------------------------------------------
(* D* on the small grid with the grid changing between its calls            *)
(* (specification SpecDStar)                                                *)

MaxDUpdates == 2    \* update_from_detections calls per behaviour of SpecDStar

\* the arguments of the calls: a cell the monitor covers, the cell the table and
\* the books cut off, a cell under the table, a cell outside the grid
DArgs == {<<1, 1>>, <<3, 0>>, <<2, 1>>, <<-1, 0>>}

DFrames == {f \in Frames : Len(f) <= 1}

NextDStar ==
    \/ \E dets \in DFrames, clear \in BOOLEAN :
          d_pc = "idle" /\ updates < MaxDUpdates /\ UpdateFromDetections(dets, clear)
    \/ \E g \in DArgs : DStarSetGoal(g[1], g[2])
    \/ \E s \in DArgs : DStarFindPath(s[1], s[2])
    \/ \E s \in DArgs : DStarReplanIfNeeded(s[1], s[2])
    \/ DStarProcess
    \/ DStarReturn
    \/ DStarTimeout

SpecDStar == Init /\ [][NextDStar]_vars

\* a find_path call, direct or through replan_if_needed, went through its search
\* and returned without running out of time
DStarSearched ==
    /\ d_last.op \in {"find_path", "replan"}
    /\ d_last.entered
    /\ ~d_last.running
    /\ ~d_last.timeout

\* C4: with the goal set, find_path from a valid start from which the goal can be
\* reached through valid cells returns (no timeout) a path from the start to the
\* goal with success = true and a finite path_cost, and it returns None only when
\* the goal cannot be reached.
C4_FindPathComplete ==
    DStarSearched =>
        /\ d_last.reachable =>
              /\ d_last.ok
              /\ d_last.path # << >>
              /\ Head(d_last.path) = d_last.arg
              /\ d_last.path[Len(d_last.path)] = <<d_goal.x, d_goal.y>>
              /\ d_stats.success
              /\ d_stats.path_cost < INF
        /\ ~d_last.ok => ~d_last.reachable

C6_ChangesRecorded ==
    (d_ghost.diff.ran /\ d_ghost.diff.modified) =>
        /\ SeqToSet(cost_changes) = d_ghost.diff.expected
        /\ d_last.op = "replan" => d_last.replanned

\* C7: after a successful set_goal the node table holds only the goal node with
\* h = k = 0 and tag OPEN, the open list holds that node only, no cost change is
\* pending, the replan counter is 0 and no path of the previous goal remains:
\* get_next_waypoint returns None for every cell.
C7_SetGoalResets ==
    (d_last.op = "set_goal" /\ d_last.ok) =>
        /\ DOMAIN nodes = {<<d_goal.x, d_goal.y>>}
        /\ nodes[<<d_goal.x, d_goal.y>>].h = 0
        /\ nodes[<<d_goal.x, d_goal.y>>].k = 0
        /\ nodes[<<d_goal.x, d_goal.y>>].tag = "OPEN"
        /\ open_list = << <<d_goal.x, d_goal.y>> >>
        /\ cost_changes = << >>
        /\ replan_count = 0
        /\ last_path = << >>
        /\ \A c \in Cells : ~get_next_waypoint(last_path, c).found

-----------------------------------------------------------------------------
(* RRT* on a 16x12-pixel frame of 4x3 cells: the samples are drawn from a    *)
(* few points of the frame and the goal (specification SpecRRT)              *)

RRTResolution == 4

\* what random.uniform may return, in pixels
SamplePixels == {<<5, 9>>, <<6, 6>>, <<10, 7>>}

RRTStarts == {<<0, 1>>, <<-1, 0>>}
RRTGoals == {<<2, 1>>, <<4, 1>>}

\* a chair over the cell (3, 0) and a monitor over the cells (1, 1) and (2, 1)
\* optimize_iterations of a call: a window shorter than the loop, and the default
OptimizeWindows == {MaxIterations - 4, optimize_iterations}

RRTFrames ==
    { << [class_name |-> "office-chair", confidence |-> 90,
          x1 |-> 12, y1 |-> 0, x2 |-> 15, y2 |-> 3] >>,
      << [class_name |-> "monitor", confidence |-> 80,
          x1 |-> 4, y1 |-> 4, x2 |-> 11, y2 |-> 7] >> }

InitRRTScenario ==
    /\ InitGrid(MaxGX, MaxGY, RRTResolution)
    /\ InitAStar
    /\ InitDStar
    /\ InitRRT
    /\ InitScene
    /\ InitMap
    /\ InitNav
    /\ InitConv(grid_width * resolution, grid_height * resolution)

NextRRT ==
    \/ \E dets \in RRTFrames :
          r_pc = "idle" /\ updates < 1 /\ UpdateFromDetections(dets, FALSE)
    \/ \E s \in RRTStarts, g \in RRTGoals, o \in OptimizeWindows :
          RRTFindPath(s[1], s[2], g[1], g[2], o)
    \/ \E p \in SamplePixels : RRTIterate(RRTNode(p[1] * PX, p[2] * PX))
    \/ RRTIterate(r_args.goal)
    \/ RRTReturn
    \/ RRTTimeout

SpecRRT == InitRRTScenario /\ [][NextRRT]_vars

\* the nodes of the tree within goal_tolerance of the goal
GoalRegion == {i \in 1 .. Len(tree) : InGoalRegion(tree[i], r_args.goal)}

RRTReturnedPath == r_pc = "done" /\ r_result.found

\* C8: a run of RRT* find_path that reached the goal region reports, when it
\* ends, a path_cost that is at most the cost the first goal-region node had when
\* it was inserted.
C8_AnytimeCost ==
    (r_pc = "done" /\ r_first.set) =>
        /\ r_stats.success
        /\ r_stats.path_cost <= r_first.cost

C8_Witness ==
    /\ r_pc = "done"
    /\ r_first.set
    /\ r_stats.success
    /\ r_stats.path_cost < r_first.cost
    /\ best_goal_node # r_first.node

\* C9: when RRT* find_path returns a path, its terminus has the least cost of
\* the tree nodes within goal_tolerance of the goal, and path_cost is that cost.
C9_BestGoalNode ==
    RRTReturnedPath =>
        /\ best_goal_node \in GoalRegion
        /\ \A i \in GoalRegion : tree[best_goal_node].cost <= tree[i].cost
        /\ r_stats.path_cost = tree[best_goal_node].cost

-----------------------------------------------------------------------------
(* The scene memory with a small cap, fed frames some seconds, half an hour  *)
(* or a day apart (specification SpecTrack)                                  *)

MaxTrackFrames == 3     \* update_scene_memory calls per behaviour of SpecTrack
TrackCap == 2           \* max_tracking_objects of the small tracker

\* seconds between two frames: within the 10 s, just beyond them, beyond the
\* memory duration, and 11 s short of a day
TrackSteps == {5, 11, 1801, 86389}

TrackFrames ==
    { << >>,
      << Monitor(100, 100) >>,
      << Monitor(500, 400) >>,
      << Monitor(100, 100), Monitor(500, 400) >>,
      << Chair(75) >>,
      << Chair(50) >> }

InitTrack ==
    /\ InitGrid(MaxGX, MaxGY, DefaultResolution) /\ InitAStar /\ InitDStar /\ InitRRT
    /\ \E cap \in {TrackCap, DefaultMaxTrackingObjects} : SceneMemorySystem(cap)
    /\ InitMap
    /\ InitNav
    /\ InitConv(grid_width * resolution, grid_height * resolution)

NextTrack ==
    /\ frames < MaxTrackFrames
    /\ \E dets \in TrackFrames, step \in TrackSteps : UpdateSceneMemory(dets, now + step)

SpecTrack == InitTrack /\ [][NextTrack]_vars

\* the ids of the objects a detection of the last call matched
MatchedIds == SeqToSet(s_last.tracking_summary.matched_objects)

\* C11: an active tracked object that gets no matching detection in an
\* update_scene_memory call whose timestamp is more than 10 seconds after its
\* last_seen is absent from the active set and present in the disappeared set
\* after the call (stated here for the gaps up to the memory duration; beyond
\* it the same call purges the entry from the disappeared set)
C11_Disappears ==
    s_last.set =>
        \A i \in 1 .. Len(s_last.before) :
            LET o == s_last.before[i]
                gap == s_last.timestamp - o.last_seen
            IN  (o.id \notin MatchedIds /\ gap > DisappearAfter /\ gap <= memory_duration)
                    => /\ o.id \notin DictKeys(tracked_objects)
                       /\ o.id \in DictKeys(disappeared_objects)

\* the detections of the last call that were confident enough to be tracked
ConfidentDetections ==
    SelectSeq(s_last.detections, LAMBDA d : d.confidence >= TrackConfidence)

\* C12: an update whose k detections of confidence >= 0.6 all match no tracked
\* object adds k active tracked objects, each under an id of its own and none
\* replacing another (counted when object tracking is done, before the cap
\* of the clean-up evicts anything)
C12_NewObjects ==
    (s_last.set /\ s_last.tracking_summary.matched_objects = << >>)
        => Len(s_last.tracked) + Cardinality(s_last.tracking_summary.disappeared_objects)
               = Len(s_last.before) + Len(ConfidentDetections)

\* the objects the clean-up of the last call evicted
Evicted ==
    { i \in 1 .. Len(s_last.tracked) : s_last.tracked[i].id \notin DictKeys(tracked_objects) }

\* C13: after every update_scene_memory call at most max_tracking_objects
\* objects are active, and no evicted object had a greater stability_count
\* than an object that was kept
C13_Cap ==
    s_last.set =>
        /\ Len(tracked_objects) <= max_tracking_objects
        /\ \A i \in Evicted : \A j \in 1 .. Len(tracked_objects) :
               s_last.tracked[i].stability_count <= tracked_objects[j].stability_count

\* three objects were tracked under the cap of two, and the one evicted had a
\* smaller stability_count than one that stayed
C13_Witness ==
    /\ s_last.set
    /\ max_tracking_objects = TrackCap
    /\ Len(s_last.tracked) = TrackCap + 1
    /\ Len(tracked_objects) = TrackCap
    /\ \E i \in Evicted : \E j \in 1 .. Len(tracked_objects) :
           s_last.tracked[i].stability_count < tracked_objects[j].stability_count

-----------------------------------------------------------------------------
(* SpecMap: a LibraryMapBuilder fed frames of 0 to 45 detections            *)

MaxMapCalls == 4               \* update_map calls per behaviour

MapDet(class_name, confidence, cx, cy) ==
    [class_name |-> class_name, confidence |-> confidence, cx |-> cx, cy |-> cy,
     frame_position |-> "center", relative_size |-> "medium"]

\* n detections below the confidence threshold, 10 pixels apart
Burst(n) == [i \in 1 .. n |-> MapDet("books", 60, 10 * i, 20)]

\* frames of 2, 5 and 45 detections add 1, 10 and 990 relationship records
MapFrames ==
    { << >>,
      << MapDet("monitor", 90, 100, 100), MapDet("office-chair", 80, 300, 200),
         MapDet("table", 75, 320, 260) >>,
      << MapDet("table", 71, 320, 260), MapDet("monitor", 90, 100, 100),
         MapDet("office-chair", 80, 300, 200) >>,
      << MapDet("books", 90, 400, 100), MapDet("table", 90, 320, 260) >>,
      << MapDet("office-chair", 70, 300, 200) >>,
      Burst(2), Burst(5), Burst(45) }

NextMap ==
    \E dets \in MapFrames : Len(recent_frames) < MaxMapCalls /\ UpdateMap(dets)

SpecMap == Init /\ [][NextMap]_vars

\* the frame consists of one monitor, one office-chair and one table, each
\* above the confidence threshold
IsLabTriple(dets) ==
    /\ Len(dets) = 3
    /\ { dets[i].class_name : i \in 1 .. 3 } = {"monitor", "office-chair", "table"}
    /\ \A i \in 1 .. 3 : dets[i].confidence > 70

LastScores == zone_scores(m_last.detections)

BestScore == CHOOSE v \in { LastScores[z] : z \in SeqToSet(ZoneNames) } :
                \A z \in SeqToSet(ZoneNames) : LastScores[z] <= v

\* C14: zone classification depends only on the detections of the call: a
\* frame of one monitor, one office-chair and one table, each above the
\* confidence threshold, gives computer_lab whatever updates came before,
\* and in general the result is a zone of maximal score when that score is
\* greater than 0 and general_area otherwise.
C14_ZoneClassification ==
    m_last.set =>
        /\ IsLabTriple(m_last.detections) => m_last.zone_type = "computer_lab"
        /\ IF BestScore > 0
           THEN /\ m_last.zone_type \in SeqToSet(ZoneNames)
                /\ LastScores[m_last.zone_type] = BestScore
           ELSE m_last.zone_type = "general_area"

\* the triple classified after three earlier updates that left persistent
\* objects and relationship records behind
C14_Witness ==
    /\ m_last.set
    /\ IsLabTriple(m_last.detections)
    /\ m_last.zone_type = "computer_lab"
    /\ Len(recent_frames) = MaxMapCalls
    /\ recent_frames[1] # m_last.detections
    /\ m_last.rel_before > 0
    /\ Len(persistent_objects) > 3

\* the number of records the last call created
LastAdded ==
    IF Len(m_last.detections) < 2 THEN 0
    ELSE (Len(m_last.detections) * (Len(m_last.detections) - 1)) \div 2

\* the log holds the records created last, oldest first, none missing
MostRecent(n) ==
    /\ Len(spatial_relationships) = n
    /\ \A i \in 1 .. n : spatial_relationships[i].serial = rel_total - n + i

\* C20: after every update_map call the relationship log holds at most 1000
\* records; an update that pushes it past 1000 leaves exactly the 500 most
\* recent records, in their original order.
C20_RelationshipLog ==
    /\ Len(spatial_relationships) <= 1000
    /\ m_last.set =>
          IF m_last.rel_before + LastAdded > 1000
          THEN MostRecent(500)
          ELSE MostRecent(m_last.rel_before + LastAdded)

\* a log of exactly 1000 records pushed past 1000 by one more record
C20_Witness ==
    /\ m_last.set
    /\ m_last.rel_before = 1000
    /\ LastAdded = 1
    /\ Len(spatial_relationships) = 500
    /\ spatial_relationships[500].serial = 1001

-----------------------------------------------------------------------------
(* SpecNav: a NavigationPlanner over the small grid.  A monitor seen on the *)
(* right makes computer_lab a known location at the cell (3, 0); a table    *)
(* across the column x = 2 walls that cell off and covers the centre of the *)
(* grid, the cell (2, 1).                                                   *)

MaxEnvUpdates == 2             \* update_environment calls per behaviour
MaxPlans == 2                  \* plan_navigation calls per behaviour

NavDet(class_name, confidence, x1, y1, x2, y2) ==
    [class_name |-> class_name, confidence |-> confidence,
     x1 |-> x1, y1 |-> y1, x2 |-> x2, y2 |-> y2,
     cx |-> (x1 + x2) \div 2, cy |-> (y1 + y2) \div 2, w |-> x2 - x1, h |-> y2 - y1,
     frame_position |-> "center", relative_size |-> "medium"]

NavFrames ==
    { << >>,
      << NavDet("monitor", 90, 30, 0, 39, 9) >>,
      << NavDet("table", 90, 20, 0, 29, 29) >> }

GoalDescriptions ==
    { << "E", "x", "i", "t" >>, << "l", "a", "b" >>, << "m", "o", "n", "i", "t", "o", "r" >> }

NavRequests ==
    { [goal_description |-> d, start_pixel_pos |-> <<5, 5>>, algorithm |-> a,
       strategy |-> "optimal"] :
         d \in GoalDescriptions, a \in {"astar", "dstar", "rrt_star", "auto"} }

NextNav ==
    \/ \E dets \in NavFrames :
          updates < MaxEnvUpdates /\ UpdateEnvironment(dets, now + FrameStep)
    \/ \E request \in NavRequests : n_last.calls < MaxPlans /\ PlanNavigation(request)
    \/ PlanDStarFindPath
    \/ PlanReturn
    \/ AStarStep
    \/ AStarExhausted
    \/ AStarTimeout
    \/ DStarProcess
    \/ DStarReturn
    \/ DStarTimeout
    \/ RRTIterate(r_args.goal)
    \/ RRTReturn
    \/ RRTTimeout

SpecNav == Init /\ [][NextNav]_vars

\* the goal description matches no known location, by substring in either
\* direction, and holds none of the class keywords
Unresolvable(goal_description, known) ==
    /\ LocationMatches(known, lower(goal_description)) = {}
    /\ target_objects(lower(goal_description)) = {}

\* C15: if the goal description matches no known location and contains none
\* of the class keywords, plan_navigation returns success=false with a
\* next_action that names the goal that could not be located, and runs no
\* search.
C15_GoalUnresolvable ==
    (n_last.set /\ Unresolvable(n_last.request.goal_description, n_last.known)) =>
        /\ ~n_last.success
        /\ n_last.next_action.kind = "cannot_locate"
        /\ n_last.next_action.goal = n_last.request.goal_description
        /\ ~n_last.searched

-----------------------------------------------------------------------------
(* SpecCalls: a searcher called again and again, with valid and invalid     *)
(* positions, on a grid that a table frame may change once.  The searchers  *)
(* share nothing but the grid, which they only read: each behaviour         *)
(* exercises one of them.                                                   *)

\* a free cell, a second free cell, a cell the table covers, a position left
\* of the grid, one below it, and a free cell behind the table
FreeA == <<0, 0>>
FreeB == <<1, 0>>
UnderTable == <<2, 1>>
LeftOfGrid == <<-1, 1>>
BelowGrid == <<1, 3>>

Beyond == <<3, 0>>

\* start and goal of the find_path calls
CallPairs ==
    { <<FreeA, FreeB>>, <<UnderTable, FreeB>>, <<FreeA, UnderTable>>,
      <<LeftOfGrid, FreeB>>, <<FreeA, BelowGrid>>, <<FreeA, Beyond>> }

\* a table across the column x = 2, which walls off the column x = 3
TableFrame ==
    << [class_name |-> "table", confidence |-> 90,
        x1 |-> 20, y1 |-> 0, x2 |-> 29, y2 |-> 29] >>

NoSearchRunning == a_pc # "search" /\ d_pc = "idle" /\ r_pc # "loop"

NextCalls ==
    \/ updates < MaxUpdates /\ NoSearchRunning /\ UpdateFromDetections(TableFrame, FALSE)
    \/ \E p \in CallPairs :
          /\ a_pc # "search" /\ d_calls = 0 /\ r_pc = "idle"
          /\ astar_find_path(p[1][1], p[1][2], p[2][1], p[2][2], TRUE)
          /\ UNCHANGED <<gridVars, dstarVars, rrtVars, sceneVars, mapVars, navVars, convVars>>
    \/ AStarStep
    \/ AStarExhausted
    \/ AStarTimeout
    \/ \E g \in {FreeB, UnderTable, BelowGrid} :
          a_pc = "idle" /\ r_pc = "idle" /\ DStarSetGoal(g[1], g[2])
    \/ \E s \in {FreeB, UnderTable, LeftOfGrid} :
          a_pc = "idle" /\ r_pc = "idle" /\ DStarFindPath(s[1], s[2])
    \/ DStarProcess
    \/ DStarReturn
    \/ DStarTimeout
    \/ \E p \in CallPairs :
          /\ r_pc # "loop" /\ a_pc = "idle" /\ d_calls = 0
          /\ rrt_find_path(p[1][1], p[1][2], p[2][1], p[2][2], optimize_iterations)
          /\ UNCHANGED <<gridVars, astarVars, dstarVars, sceneVars, mapVars, navVars, convVars>>
    \/ RRTIterate(r_args.goal)
    \/ RRTReturn
    \/ RRTTimeout

SpecCalls == Init /\ [][NextCalls]_vars

\* the position is out of bounds or an Obstacle cell
InvalidCell(c) == c \notin DOMAIN grid \/ grid[c] = OBSTACLE

\* the cell of an RRT* node, without the clamping of pixel_to_grid
CellOfNode(n) == << n.x \div (resolution * PX), n.y \div (resolution * PX) >>

\* a step that is an A* find_path call with an invalid start or goal
AStarInvalidCall ==
    /\ a_pc # "search"
    /\ astarVars' # astarVars
    /\ InvalidCell(a_args'.start) \/ InvalidCell(a_args'.goal)

\* a step that is a D* set_goal or find_path call with an invalid position
DStarInvalidCall ==
    /\ d_calls' # d_calls
    /\ d_last'.op \in {"set_goal", "find_path"}
    /\ InvalidCell(d_last'.arg)

\* a step that is an RRT* find_path call with an invalid start or goal
RRTInvalidCall ==
    /\ r_pc # "loop"
    /\ rrtVars' # rrtVars
    /\ InvalidCell(CellOfNode(r_args'.start)) \/ InvalidCell(CellOfNode(r_args'.goal))

\* C16: for each of A*, D* and RRT*, a call with a start or goal that is out
\* of bounds or an Obstacle cell (find_path, and for D* set_goal with the goal
\* and find_path with the start) returns failure without a search iteration
\* and without changing the searcher's nodes, open list, tree, goal or
\* last-search statistics.
C16_InvalidPosition ==
    [][ /\ AStarInvalidCall =>
              /\ a_pc' = "done" /\ ~a_result'.found
              /\ UNCHANGED <<open_set, closed_set, node_map, nodes_explored, a_stats>>
        /\ DStarInvalidCall =>
              /\ d_pc' = "idle" /\ ~d_last'.ok /\ ~d_last'.entered
              /\ UNCHANGED <<d_goal, nodes, open_list, last_path, cost_changes,
                             replan_count, last_grid_state, d_stats>>
        /\ RRTInvalidCall =>
              /\ r_pc' = "done" /\ ~r_result'.found
              /\ UNCHANGED <<tree, goal_found, best_goal_node, best_cost, iterations,
                             r_stats>> ]_vars

\* D* after set_goal and a search that succeeded: a find_path call with a
\* start outside the grid has returned None and the nodes, the goal and the
\* statistics of that search are still there
C16_Witness ==
    /\ d_calls = MaxDCalls
    /\ d_pc = "idle"
    /\ d_last.op = "find_path" /\ d_last.arg = LeftOfGrid
    /\ ~d_last.ok /\ ~d_last.entered
    /\ d_goal.set
    /\ d_stats.present /\ d_stats.success
    /\ nodes # << >>

\* A* after a search that succeeded: a call with an Obstacle goal has
\* returned None and the statistics of that search are still there
C16_WitnessAStar ==
    /\ a_pc = "done"
    /\ a_args.goal = UnderTable /\ grid[UnderTable] = OBSTACLE
    /\ ~a_result.found
    /\ a_stats.present /\ a_stats.success
    /\ node_map # << >>

\* RRT* after a search that ran: a call with a start outside the grid has
\* returned None and the tree and the statistics of that search are still there
C16_WitnessRRT ==
    /\ r_pc = "done"
    /\ CellOfNode(r_args.start) = LeftOfGrid
    /\ ~r_result.found
    /\ r_stats.present
    /\ Len(tree) > 1

-----------------------------------------------------------------------------
(* SpecGrid: sequences of update_from_detections calls                      *)

MaxGridUpdates == 3            \* update_from_detections calls per behaviour

\* a table over the cells (2,1) and (3,1), books of low confidence over the
\* cell (2,0), a monitor over the cells (1,1) and (2,1), and a detection of
\* a class the grid map has no cost for over the cell (0,2)
GridPool ==
    { [class_name |-> "table", confidence |-> 90,
       x1 |-> 20, y1 |-> 10, x2 |-> 639, y2 |-> 19],
      [class_name |-> "books", confidence |-> 30,
       x1 |-> 20, y1 |-> 0, x2 |-> 29, y2 |-> 9],
      [class_name |-> "monitor", confidence |-> 80,
       x1 |-> 10, y1 |-> 10, x2 |-> 29, y2 |-> 19],
      [class_name |-> "person", confidence |-> 90,
       x1 |-> 0, y1 |-> 20, x2 |-> 9, y2 |-> 29] }

GridFrames == UNION { [1 .. n -> GridPool] : n \in 0 .. MaxDets }

NextGrid ==
    \E dets \in GridFrames, clear \in BOOLEAN :
        updates < MaxGridUpdates /\ UpdateFromDetections(dets, clear)

SpecGrid == Init /\ [][NextGrid]_vars

ObstacleClasses == {"table", "office-chair", "books", "whiteboard"}

\* the bounding box of the detection covers the cell
Covers(det, c) ==
    /\ pixel_to_grid(det.x1, det.y1)[1] <= c[1] /\ c[1] <= pixel_to_grid(det.x2, det.y2)[1]
    /\ pixel_to_grid(det.x1, det.y1)[2] <= c[2] /\ c[2] <= pixel_to_grid(det.x2, det.y2)[2]

\* a detection of the call that is now returning, of one of these classes,
\* covers the cell
CoveredNow(c, classes) ==
    \E i \in 1 .. Len(g_last'.detections) :
        g_last'.detections[i].class_name \in classes /\ Covers(g_last'.detections[i], c)

AllClasses == { d.class_name : d \in GridPool }

\* kind and cost of the cell when the call started adding detections
KindBefore(c) == IF g_last'.clear_previous THEN FREE ELSE grid[c]
CostBefore(c) == IF g_last'.clear_previous THEN SCALE ELSE cost_grid[c]

\* one update_from_detections call, cell by cell
GridStep ==
    updates' # updates =>
        \A c \in DOMAIN grid :
            /\ (grid'[c] = OBSTACLE /\ KindBefore(c) # OBSTACLE) => CoveredNow(c, ObstacleClasses)
            /\ ~CoveredNow(c, ObstacleClasses) =>
                   grid'[c] = KindBefore(c) /\ cost_grid'[c] >= CostBefore(c)
            /\ (~CoveredNow(c, AllClasses) /\ cost_grid'[c] # CostBefore(c)) =>
                   /\ KindBefore(c) = FREE /\ grid'[c] = FREE
                   /\ cost_grid'[c] >= 5 * 1500

\* C17: after any sequence of update_from_detections calls a cell is Obstacle
\* only if a detection of class table, office-chair, books or whiteboard
\* covered it; detections of every other class and obstacle inflation never
\* change a cell's kind and never lower a cell's cost, and inflation changes
\* the cost of Free cells only, raising it to at least 5.0 x 1.5.
C17_ObstacleCells ==
    /\ [](\A c \in DOMAIN grid : grid[c] = OBSTACLE => c \in g_last.covered)
    /\ [][GridStep]_vars

\* after three updates: a cell under the table is Obstacle, a cell that only
\* the monitor covered is Free at a cost below the inflated cost, and a cell
\* that no detection covered is Free at the inflated cost
C17_Witness ==
    /\ updates = MaxGridUpdates
    /\ grid[<<2, 1>>] = OBSTACLE
    /\ grid[<<1, 1>>] = FREE /\ cost_grid[<<1, 1>>] > SCALE
    /\ grid[<<0, 0>>] = FREE /\ cost_grid[<<0, 0>>] = 5 * 1500
    /\ \E i \in 1 .. Len(g_last.detections) : g_last.detections[i].class_name = "monitor"
    /\ ~g_last.clear_previous

-----------------------------------------------------------------------------
(* Pixel and cell coordinates: maps of several image sizes and resolutions, *)
(* image sizes that are no multiple of the resolution included, and a       *)
(* caller that converts a pixel to its cell, the cell to its pixel and that *)
(* pixel to a cell again.                                                   *)

ImageWidths == {40, 45}
ImageHeights == {30, 37}
Resolutions == {7, 10, 15}

\* pixel coordinates in thousandths of a pixel: left of the frame, the first
\* pixel, a fraction below a cell border, a cell border, inside the frame,
\* the last columns of a frame wider than its cells, the frame's far edge
\* and a pixel beyond it
PixelXs(width) == {-5 * PX, 0, 9999, 10 * PX, 20500, (width - 1) * PX, width * PX, (width + 10) * PX}
PixelYs(height) == {-1, 14999, 21 * PX, height * PX, (height + 7) * PX}

InitPixel ==
    /\ \E width \in ImageWidths, height \in ImageHeights, res \in Resolutions :
           LibraryGridMap(width, height, res)
    /\ InitAStar /\ InitDStar /\ InitRRT
    /\ InitScene
    /\ InitMap
    /\ InitNav

NextPixel ==
    \/ \E px \in PixelXs(cv_image[1]), py \in PixelYs(cv_image[2]) : PixelToGrid(px, py)
    \/ GridToPixel
    \/ PixelToGridAgain

SpecPixel == InitPixel /\ [][NextPixel]_vars

InFrame(p) ==
    /\ 0 <= p[1] /\ p[1] <= cv_image[1] * PX
    /\ 0 <= p[2] /\ p[2] <= cv_image[2] * PX

\* the cell whose square holds pixel p, clamping aside
CellHolding(p, c) ==
    /\ c[1] * resolution * PX <= p[1] /\ p[1] < (c[1] + 1) * resolution * PX
    /\ c[2] * resolution * PX <= p[2] /\ p[2] < (c[2] + 1) * resolution * PX

\* p lies at equal distance from the borders of cell c
CentreOf(p, c) ==
    /\ p[1] - c[1] * resolution * PX = (c[1] + 1) * resolution * PX - p[1]
    /\ p[2] - c[2] * resolution * PX = (c[2] + 1) * resolution * PX - p[2]

Clamped(p, c) == ~CellHolding(p, c)

\* C18: for every pixel coordinate p, with c = pixel_to_grid(p):
\* pixel_to_grid(grid_to_pixel(c)) = c, grid_to_pixel(c) is the centre of the
\* cell c, and converting that centre once more changes nothing; the same
\* for coordinates that pixel_to_grid clamps to the grid border.
C18_RoundTrip ==
    /\ cv_pc \in {"centre", "again"} =>
           /\ CentreOf(cv_centre, cv_cell)
           /\ CellHolding(cv_centre, cv_cell)
    /\ cv_pc = "again" =>
           /\ cv_again = cv_cell
           /\ grid_to_pixel(cv_again[1], cv_again[2]) = cv_centre
    /\ cv_pc # "idle" =>
           /\ cv_cell \in (0 .. grid_width - 1) \X (0 .. grid_height - 1)
           /\ (InFrame(cv_pixel) /\ ~Clamped(cv_pixel, cv_cell)) => CellHolding(cv_pixel, cv_cell)

\* a pixel of the frame's last columns, in a frame 45 wide with cells of 10:
\* no cell holds it, pixel_to_grid clamps it to the last column, and the
\* round trip has been made
C18_Witness ==
    /\ cv_pc = "again"
    /\ cv_image = <<45, 37>> /\ resolution = 10
    /\ cv_pixel = <<44 * PX, 37 * PX>>
    /\ InFrame(cv_pixel) /\ Clamped(cv_pixel, cv_cell)
    /\ cv_cell = <<grid_width - 1, grid_height - 1>>
    /\ cv_again = cv_cell

-----------------------------------------------------------------------------
(* A* on a grid of differing costs: a frame of 50 by 40 pixels at           *)
(* resolution 10, one update with a monitor across the cells (0,1)-(3,1),   *)
(* with a table down the column x = 2, or with nothing, then one find_path  *)
(* call for any start and goal.                                             *)

WeightedScenario ==
    [width |-> 5, height |-> 4,
     monitor |-> [class_name |-> "monitor", confidence |-> 80,
                  x1 |-> 0, y1 |-> 10, x2 |-> 39, y2 |-> 19],
     table |-> [class_name |-> "table", confidence |-> 90,
                x1 |-> 20, y1 |-> 0, x2 |-> 29, y2 |-> 39]]

WeightedFrames == { << >>, << WeightedScenario.monitor >>, << WeightedScenario.table >> }

InitWeighted ==
    /\ InitGrid(WeightedScenario.width, WeightedScenario.height, DefaultResolution)
    /\ InitAStar /\ InitDStar /\ InitRRT
    /\ InitScene
    /\ InitMap
    /\ InitNav
    /\ InitConv(grid_width * resolution, grid_height * resolution)

NextWeighted ==
    \/ \E dets \in WeightedFrames :
          a_pc = "idle" /\ updates < MaxUpdates /\ UpdateFromDetections(dets, TRUE)
    \/ \E sx \in 0 .. grid_width - 1, gx \in 0 .. grid_width - 1,
          sy \in 0 .. grid_height - 1, gy \in 0 .. grid_height - 1 :
          updates = MaxUpdates /\ AStarFindPath(sx, sy, gx, gy, FALSE)
    \/ AStarStep
    \/ AStarExhausted
    \/ AStarTimeout

SpecWeighted == InitWeighted /\ [][NextWeighted]_vars

\* the cost of walking a path: the movement cost of every step
RECURSIVE PathCost(_)
PathCost(path) ==
    IF Len(path) < 2 THEN 0
    ELSE calculate_movement_cost(grid, cost_grid, path[1], path[2]) + PathCost(Tail(path))

SetMin(S) == CHOOSE m \in S : \A x \in S : m <= x

Adjacent(a, b) == a # b /\ Abs(a[1] - b[1]) <= 1 /\ Abs(a[2] - b[2]) <= 1

\* one round of relaxation of the cheapest known costs from the start
CheapestStep(dist) ==
    [c \in Cells |->
        IF ~is_valid_position(grid, c[1], c[2]) THEN INF
        ELSE SetMin({dist[c]} \cup
                    { dist[p] + calculate_movement_cost(grid, cost_grid, p, c) :
                        p \in { q \in Cells : Adjacent(q, c) /\ dist[q] < INF } })]

RECURSIVE CheapestFix(_, _)
CheapestFix(old, new) == IF new = old THEN new ELSE CheapestFix(new, CheapestStep(new))

\* the cost of the cheapest path of valid cells from start to every cell
CheapestFrom(start) ==
    CheapestFix([c \in Cells |-> INF],
                [c \in Cells |-> IF c = start /\ is_valid_position(grid, c[1], c[2])
                                 THEN 0 ELSE INF])

\* truncation to thousandths loses less than one thousandth per step
RoundingSlack == 2 * Cardinality(Cells)

\* C21: with heuristic weight 1.0 and no timeout, whenever find_path returns
\* a path, the reported path_cost is the cost of the unsmoothed path found
\* and no path of valid cells from start to goal costs less.
C21_Optimal ==
    (AStarReturned /\ a_result.found) =>
        /\ a_stats.path_cost = PathCost(a_raw)
        /\ a_stats.path_cost <= CheapestFrom(a_args.start)[a_args.goal] + RoundingSlack

-----------------------------------------------------------------------------
(* Path smoothing (C22), checked on the paths of Spec *)

RECURSIVE IsSubsequence(_, _)
IsSubsequence(sub, seq) ==
    IF sub = << >> THEN TRUE
    ELSE IF seq = << >> THEN FALSE
    ELSE IF Head(sub) = Head(seq) THEN IsSubsequence(Tail(sub), Tail(seq))
    ELSE IsSubsequence(sub, Tail(seq))

\* the cells the stepping loop of _is_line_of_sight visits from start in its
\* first n steps, whatever their kind, up to and including end
RECURSIVE LineCells(_, _, _, _, _)
LineCells(x, y, error, w, n) ==
    IF (x = w.x1 /\ y = w.y1) \/ n = 0 THEN << <<x, y>> >>
    ELSE IF error > 0
         THEN << <<x, y>> >> \o LineCells(x + w.x_inc, y, error - w.dy, w, n - 1)
         ELSE << <<x, y>> >> \o LineCells(x, y + w.y_inc, error + w.dx, w, n - 1)

LineOfSightCells(start, end) ==
    LineCells(start[1], start[2],
              Abs(end[1] - start[1]) - Abs(end[2] - start[2]),
              [x1 |-> end[1], y1 |-> end[2],
               dx |-> Abs(end[1] - start[1]), dy |-> Abs(end[2] - start[2]),
               x_inc |-> IF end[1] > start[1] THEN 1 ELSE -1,
               y_inc |-> IF end[2] > start[2] THEN 1 ELSE -1],
              grid_width + grid_height)

ConsecutiveIn(path, p, q) == \E i \in 1 .. Len(path) - 1 : path[i] = p /\ path[i + 1] = q

ClearLine(p, q) ==
    /\ LineOfSightCells(p, q)[Len(LineOfSightCells(p, q))] = q
    /\ \A c \in SeqToSet(LineOfSightCells(p, q)) : is_valid_position(grid, c[1], c[2])

Smoothed == AStarReturned /\ a_result.found /\ a_args.smooth

\* C22: for every raw A* path, smoothing terminates and returns a
\* subsequence of the raw path that keeps its first and last cells; for each
\* two consecutive cells of the result that were not consecutive in the raw
\* path, the line-of-sight walk between them reaches the second cell and
\* every cell it visits is in bounds and not Obstacle.
C22_Smoothing ==
    Smoothed =>
        /\ a_result.path = smooth_path(grid, a_raw)
        /\ IsSubsequence(a_result.path, a_raw)
        /\ a_result.path[1] = a_raw[1]
        /\ a_result.path[Len(a_result.path)] = a_raw[Len(a_raw)]
        /\ \A k \in 1 .. Len(a_result.path) - 1 :
              \/ ConsecutiveIn(a_raw, a_result.path[k], a_result.path[k + 1])
              \/ ClearLine(a_result.path[k], a_result.path[k + 1])

\* smoothing skipped cells of the raw path, but could not go straight from
\* the start to the goal because an Obstacle cell lies on that line
C22_Witness ==
    /\ Smoothed
    /\ Len(a_result.path) < Len(a_raw)
    /\ Len(a_result.path) >= 3
    /\ ~ClearLine(a_args.start, a_args.goal)
    /\ \E k \in 1 .. Len(a_result.path) - 1 :
          ~ConsecutiveIn(a_raw, a_result.path[k], a_result.path[k + 1])

-----------------------------------------------------------------------------
(* The unsmoothed path of A* (C28), checked on the paths of Spec *)

NoRepeat(path) == \A i, j \in 1 .. Len(path) : path[i] = path[j] => i = j

Unsmoothed == AStarReturned /\ a_result.found /\ ~a_args.smooth

\* C28: every path find_path returns with smooth_path=False starts at the
\* start cell, ends at the goal cell, visits no cell twice, contains only
\* in-bounds non-Obstacle cells, and each two consecutive cells are
\* 8-neighbours; the walk along the parent links terminates.
C28_RawPath ==
    Unsmoothed =>
        /\ a_result.path = a_raw
        /\ Len(a_raw) >= 1 /\ Len(a_raw) <= Cardinality(Cells)
        /\ a_raw[1] = a_args.start
        /\ a_raw[Len(a_raw)] = a_args.goal
        /\ NoRepeat(a_raw)
        /\ \A i \in 1 .. Len(a_raw) : a_raw[i] \in Cells /\ grid[a_raw[i]] # OBSTACLE
        /\ \A i \in 1 .. Len(a_raw) - 1 : Adjacent(a_raw[i], a_raw[i + 1])

\* a path that goes around an Obstacle cell: longer than the straight walk
C28_Witness ==
    /\ Unsmoothed
    /\ \E c \in Cells : grid[c] = OBSTACLE
    /\ Len(a_raw) > Max(ArgDx, ArgDy) + 1
    /\ a_raw[1] = a_args.start /\ a_raw[Len(a_raw)] = a_args.goal

-----------------------------------------------------------------------------
(* The open list and the node tags of D* (C23), checked in SpecDStar *)

Queued(key) == InSeq(open_list, key)

TagOf(key) == IF key \in DOMAIN nodes THEN nodes[key].tag ELSE "NEW"

\* C23: in every reachable state of the D* pathfinder a node is held in the
\* open list if and only if its tag is Open: nodes tagged New have never
\* been queued and a node tagged Closed has no entry left in the open list.
C23_OpenListTags ==
    \A key \in DOMAIN nodes \cup SeqToSet(open_list) : Queued(key) <=> TagOf(key) = "OPEN"

-----------------------------------------------------------------------------
(* Termination of D* find_path (C24): set_goal(1, 1), then find_path calls  *)
(* from the goal itself and from (3, 0) with grid updates between them, no  *)
(* timeout.  A find_path call from the goal runs one iteration and leaves   *)
(* the rest of the open list to the next call.                              *)

MaxLiveCalls == 5       \* set_goal and find_path calls per behaviour of SpecDStarLive

LiveGoal == <<1, 1>>
LiveStarts == {<<1, 1>>, <<3, 0>>}
LiveFrames == {f \in Frames : Len(f) = 1}

\* the branch of _process_state the next iteration takes
NextBranch ==
    IF open_list = << >> THEN "none"
    ELSE IF nodes[heappop(open_list, DStarKey(nodes))[1]].k
            < nodes[heappop(open_list, DStarKey(nodes))[1]].h THEN "raise"
    ELSE IF nodes[heappop(open_list, DStarKey(nodes))[1]].k
            = nodes[heappop(open_list, DStarKey(nodes))[1]].h THEN "lower"
    ELSE "mixed"

NextDStarLive ==
    \/ \E dets \in LiveFrames, clear \in BOOLEAN :
          /\ d_pc = "idle" /\ d_calls >= 2 /\ updates < MaxDUpdates
          /\ UpdateFromDetections(dets, clear)
    \/ /\ d_pc = "idle" /\ d_calls = 0
       /\ set_goal(LiveGoal[1], LiveGoal[2])
       /\ UNCHANGED <<gridVars, astarVars, rrtVars, sceneVars, mapVars, navVars, convVars>>
    \/ \E s \in LiveStarts :
          /\ d_pc = "idle" /\ d_calls >= 1 /\ d_calls < MaxLiveCalls
          /\ dstar_find_path(s[1], s[2])
          /\ UNCHANGED <<gridVars, astarVars, rrtVars, sceneVars, mapVars, navVars, convVars>>
    \/ DStarProcess
    \/ DStarReturn

LoopCanRun == d_pc = "search" /\ open_list # << >>

\* the calling thread runs on: an iteration of the loop that can be taken is
\* taken, and so is the return.  The condition on DStarProcess is its weak
\* fairness written out with the guard LoopCanRun in the place of ENABLED:
\* an iteration counts d_ghost.iterations up, so the step changes the state
\* and is enabled exactly when its guard holds.
SpecDStarLive ==
    /\ Init /\ [][NextDStarLive]_vars
    /\ ([]<>(~LoopCanRun) \/ []<><<DStarProcess>>_vars)
    /\ WF_vars(DStarReturn)

\* no find_path call of SpecDStarLive makes more iterations than this
LoopBound == 4 * Cardinality(Cells)

-----------------------------------------------------------------------------
(* The tree of RRT*.                                                        *)

\* the number of entries of list that are v
Occurrences(list, v) == Cardinality({k \in 1 .. Len(list) : list[k] = v})

\* the nodes met on the parent links from node i, at most n + 1 of them
RECURSIVE Ancestors(_, _, _)
Ancestors(t, i, n) ==
    IF i = 0 \/ n = 0 THEN << >> ELSE <<i>> \o Ancestors(t, t[i].parent, n - 1)

\* the parent links from node i end at the start node and repeat no node
ReachesStart(t, i) ==
    LET walk == Ancestors(t, i, Len(t) + 1)
    IN  /\ Len(walk) <= Len(t)
        /\ walk[Len(walk)] = 1
        /\ \A a, b \in 1 .. Len(walk) : a # b => walk[a] # walk[b]

RootedTree(t) ==
    /\ t[1].parent = 0
    /\ \A i \in 2 .. Len(t) :
          /\ t[i].parent \in 1 .. Len(t)
          /\ \A p \in 1 .. Len(t) :
                Occurrences(t[p].children, i) = (IF p = t[i].parent THEN 1 ELSE 0)
    /\ \A p \in 1 .. Len(t) : Occurrences(t[p].children, 1) = 0
    /\ \A i \in 1 .. Len(t) : ReachesStart(t, i)

\* C25: after every iteration of RRT* find_path, rewiring included, the tree
\* is a rooted tree: the start node is the only node without a parent, every
\* other node is exactly once in its parent's children list and in no other
\* node's, and the parent links from any node reach the start node without
\* meeting a node twice.
C25_RootedTree == (r_pc # "idle" /\ tree # << >>) => RootedTree(tree)

\* an iteration has rewired: a node hangs under a node added after it
C25_Witness ==
    /\ r_pc = "loop"
    /\ \E i \in 1 .. Len(tree) : tree[i].parent > i
    /\ RootedTree(tree)

-----------------------------------------------------------------------------
(* The optimisation window of RRT*.                                         *)

\* the iterations the loop of the last call made after the one in which a
\* node first fell within goal_tolerance of the goal
IterationsAfterGoal == r_stats.iterations - (r_first.iteration + 1)

\* C26: in a find_path run in which a node first falls within goal_tolerance
\* of the goal at iteration i, the loop makes at most optimize_iterations
\* further iterations after i; it does not go on to max_iterations when more
\* than optimize_iterations iterations remain.
C26_OptimizeWindow ==
    (r_pc = "done" /\ r_stats.present /\ r_first.set) =>
        IterationsAfterGoal <= r_args.optimize_iterations

-----------------------------------------------------------------------------
(* SpecGoal: plan_navigation called twice on the planner of SpecNav, from   *)
(* the corner of the frame or from its centre, with a table seen between or *)
(* before the calls.  The table makes study_area a known location at the    *)
(* cell (3, 0) and makes that cell an obstacle.                             *)

GoalStarts == {<<5, 5>>, <<25, 15>>}

GoalRequests ==
    { [goal_description |-> d, start_pixel_pos |-> s, algorithm |-> a,
       strategy |-> "optimal"] :
         d \in {<< "E", "x", "i", "t" >>, << "s", "t", "u", "d", "y" >>},
         s \in GoalStarts,
         a \in {"astar", "dstar", "rrt_star"} }

NextGoal ==
    \/ /\ updates < 1
       /\ UpdateEnvironment(<< NavDet("table", 90, 30, 0, 39, 9) >>, now + FrameStep)
    \/ \E request \in GoalRequests : n_last.calls < MaxPlans /\ PlanNavigation(request)
    \/ PlanDStarFindPath
    \/ PlanReturn
    \/ AStarStep
    \/ DStarProcess
    \/ DStarReturn
    \/ RRTIterate(r_args.goal)
    \/ RRTReturn

SpecGoal == Init /\ [][NextGoal]_vars

\* the cell of the start pixel of the last plan_navigation call
StartCellOfCall ==
    pixel_to_grid(n_last.request.start_pixel_pos[1], n_last.request.start_pixel_pos[2])

\* C27: whenever plan_navigation returns success=true, whichever algorithm
\* ran, the first cell of result.path is the grid cell of
\* request.start_pixel_pos and the last cell is the goal cell the goal
\* description resolved to in that call, also when an earlier call had left a
\* different goal in the D* searcher and the newly resolved goal is not a
\* valid cell.
C27_PathEnds ==
    (n_last.set /\ n_last.success) =>
        /\ n_last.path # << >>
        /\ n_last.path[1] = StartCellOfCall
        /\ n_last.path[Len(n_last.path)] = n_last.goal_pos

-----------------------------------------------------------------------------
(* The obstacles of the planner's grid.                                     *)

\* C29: across any sequence of update_environment calls a cell that has
\* become Obstacle stays Obstacle: the set of Obstacle cells never shrinks,
\* also when later frames no longer hold the detection that made the
\* obstacle.
C29_ObstaclesStay == [][ObstacleCells \subseteq ObstacleCells']_vars

\* an empty frame came after the frame that made the obstacles
C29_Witness ==
    /\ updates = MaxEnvUpdates
    /\ g_last.detections = << >>
    /\ ~g_last.clear_previous
    /\ ObstacleCells # {}

-----------------------------------------------------------------------------
(* SpecCount: the scene memory fed frames that hold one monitor or two      *)
(* monitors ten pixels apart, five or eleven seconds after one another.     *)

CountSteps == {5, 11}

CountFrames ==
    { << >>,
      << Monitor(100, 100) >>,
      << Monitor(100, 100), Monitor(110, 100) >> }

NextCount ==
    /\ frames < MaxTrackFrames
    /\ \E dets \in CountFrames, step \in CountSteps : UpdateSceneMemory(dets, now + step)

SpecCount == InitTrack /\ [][NextCount]_vars

\* stability_count of the object before the last update_scene_memory call,
\* 0 when the call created it
CountBefore(id) ==
    IF DictIndex(s_last.before, id) = 0 THEN 0
    ELSE s_last.before[DictIndex(s_last.before, id)].stability_count

\* C30: a tracked object's stability_count counts frames: it is 1 after the
\* update that created the object and grows by at most 1 per
\* update_scene_memory call, also in frames with several detections of the
\* object's class.
C30_CountsFrames ==
    s_last.set =>
        \A i \in 1 .. Len(tracked_objects) :
            tracked_objects[i].stability_count <= CountBefore(tracked_objects[i].id) + 1

=============================================================================
